---- MODULE Spec2Model ----
(***************************************************************************)
(* A model of the productivity bot's core: the free/busy slot finder       *)
(* (calendar_integration.py), the vault index rebuild (obsidian_sync.py),  *)
(* the calendar <-> task sync (calendar_sync.py), the conversation         *)
(* sessions (conversation.py), the notification escalation                *)
(* (notifications.py) and the vault's git sync (git_sync.py).  Each component has its own variables and its own   *)
(* specification; the other components' variables stay at rest in it.      *)
(***************************************************************************)
EXTENDS Integers, Sequences, FiniteSets, Bags, TLC

VARIABLES
    \* ---- slot finder (CalendarIntegration.find_free_slots)
    sfPc,           \* "idle" | "loop" | "done"
    sfIn,           \* the call's arguments and the sorted busy_periods
    current_time,   \* the cursor of the search loop
    free_slots,     \* the slots emitted so far
    sfJumped,       \* the cursor's value was set by a jump to a busy period's end
    \* ---- notifications (NotificationManager)
    notifications,  \* the notifications table: row i has id i
    ntNow,          \* datetime.now(), in ticks of half a minute
    ntPc,           \* escalate_pending_notifications: "idle" | "loop" | "returned" | "raised"
    ntPending,      \* the pending notifications the run has still to examine
    ntCount,        \* escalated_count
    ntTrace,        \* the notifications the current run examined, and what it sent
    ntEscalated,    \* the ids earlier runs sent a message for
    ntStart,        \* Some(the table as the current run found it)
    ntRuns,         \* the number of runs started
    ntPriority,     \* Some(the priority the loop body has read for its notification)
    \* ---- conversation sessions (ConversationManager)
    bot_sessions,           \* the committed rows of bot_sessions
    conversation_messages,  \* the committed rows of conversation_messages
    csTxn,          \* the open write transaction (SQLite admits one writer): NULL or
                    \* Some([owner, sessions, messages]), the writer's uncommitted view
    csPc,           \* each caller's position
    csLoc,          \* each caller's locals
    csNow,          \* datetime.now(), in minutes
    csNextId,       \* the next fresh uuid4
    csReturned,     \* the session ids get_or_create_session has returned
    csResult,       \* Some(what the get_session, is_at_message_limit or
                    \* cleanup_expired_sessions call just made read and returned)
    \* ---- vault and relational index (ObsidianSync.rebuild_index)
    vault,          \* the vault's files, in directory-walk order
    schema,         \* the constraints of the migration's tables
    db,             \* the committed tables of the relational store
    ixConn,         \* the uncommitted view of rebuild_index's connection, or NULL
    ixPc,           \* the position of rebuild_index
    ixPos,          \* the number of files the current _index_* loop has indexed
    ixCalls,        \* the number of rebuild_index calls made
    ixAfterFirst,   \* Some(the tables as the first call left them, how it ended)
    ixOps,          \* the create_task_file and rebuild_index calls made, in order
    \* ---- calendar and sync (CalendarSync)
    calendar,       \* the calendar's events, in start order
    calendar_sync,  \* the rows of table calendar_sync
    syPc,           \* the position of run_bidirectional_sync
    syNow,          \* the clock, in days
    syEvents,       \* the events sync_calendar_to_tasks has still to look at
    syTasks,        \* the tasks sync_tasks_to_calendar has still to look at
    syCount,        \* updates_count of the two passes of the current run
    syLog,          \* the calls the current run has issued
    syResults,      \* per run: Some(what it returned and issued), NULL if it raised
    syStart,        \* Some(what the current run found when it started)
    syTrace,        \* the writes and calendar calls of the current run, in order
    \* ---- git sync of the vault (GitSync)
    gsPc,           \* the position of GitSync.sync
    gsDirty,        \* git status --porcelain has output: uncommitted changes
    gsLocal,        \* the commits of the local branch
    gsRemote,       \* the commits of the branch on the remote
    gsNextCommit,   \* the next commit to be made, here or elsewhere
    gsResult,       \* the result dictionary of the current sync call
    gsLog,          \* what the steps of the current sync call met
    gsRuns          \* the number of sync calls started

sfVars == <<sfPc, sfIn, current_time, free_slots, sfJumped>>

ntRun == <<ntPc, ntPending, ntCount, ntTrace, ntEscalated, ntStart, ntRuns, ntPriority>>

ntVars == <<notifications, ntNow, ntRun>>

csVars == <<bot_sessions, conversation_messages, csTxn, csPc, csLoc, csNow,
            csNextId, csReturned, csResult>>

ixVars == <<vault, schema, db, ixConn, ixPc, ixPos, ixCalls, ixAfterFirst, ixOps>>

syVars ==
    <<calendar, calendar_sync, syPc, syNow, syEvents, syTasks, syCount, syLog, syResults,
      syStart, syTrace>>

gsVars == <<gsPc, gsDirty, gsLocal, gsRemote, gsNextCommit, gsResult, gsLog, gsRuns>>

vars == <<sfVars, ntVars, csVars, ixVars, syVars, gsVars>>

\* The variables of the other components, which a component's actions leave alone
notSf == <<ntVars, csVars, ixVars, syVars, gsVars>>

notNt == <<sfVars, csVars, ixVars, syVars, gsVars>>

notCs == <<sfVars, ntVars, ixVars, syVars, gsVars>>

notIx == <<sfVars, ntVars, csVars, syVars, gsVars>>

notGs == <<sfVars, ntVars, csVars, ixVars, syVars>>

\* (the sync passes read and write the vault and the tasks table)
notSy ==
    <<sfVars, ntVars, csVars, gsVars, schema, ixConn, ixPc, ixPos, ixCalls, ixAfterFirst,
      ixOps>>

\* A nullable column holds NULL or Some(v); Val reads the value of a non-NULL one
NULL == <<>>

Some(v) == <<v>>

Val(x) == x[1]

(***************************************************************************)
(* Time of the slot finder: minutes since a Monday 00:00 in the configured *)
(* time zone.  datetime.hour, .minute, .weekday() and .replace(hour=h,     *)
(* minute=0, second=0, microsecond=0) on that scale.                       *)
(***************************************************************************)
MinutesPerDay == 1440

HourOf(t) == (t \div 60) % 24

MinuteOf(t) == t % 60

DayOf(t) == t \div MinutesPerDay

WeekdayOf(t) == DayOf(t) % 7

ReplaceHour(t, h) == DayOf(t) * MinutesPerDay + h * 60

At(day, hour, minute) == day * MinutesPerDay + hour * 60 + minute

\* ---- bounds of the slot finder's inputs
MaxSlots == 4

SearchDays == 2

\* ---- program constants
DefaultWorkStart == 9

DefaultWorkEnd == 17

SlotStep == 15

Durations == {30, 60, 480}

WorkHourPairs == {<<DefaultWorkStart, DefaultWorkEnd>>, <<8, 12>>}

\* Monday 08:30, Monday 16:00, Tuesday 09:00, Friday 15:30, Saturday 10:00
TimeMins == {At(0, 8, 30), At(0, 16, 0), At(1, 9, 0), At(4, 15, 30), At(5, 10, 0)}

\* Busy periods the calendar may report: <<start, end>>
BusyPool ==
    { <<At(0, 9, 0), At(0, 10, 0)>>,
      <<At(0, 9, 30), At(0, 16, 0)>>,
      <<At(0, 16, 45), At(1, 9, 30)>>,
      <<At(1, 10, 0), At(1, 11, 0)>>,
      <<At(4, 15, 0), At(4, 16, 30)>>,
      <<At(4, 16, 30), At(5, 11, 0)>> }

BusySets == { B \in SUBSET BusyPool : Cardinality(B) <= 2 }

\* time_max - time_min, in minutes: the days of the search, or twenty minutes
Spans == {SearchDays * MinutesPerDay, 20}

(***************************************************************************)
(* busy_periods.sort(): tuples in ascending (start, end) order.            *)
(***************************************************************************)
TupleLess(a, b) == a[1] < b[1] \/ (a[1] = b[1] /\ a[2] < b[2])

RECURSIVE SortBusy(_)
SortBusy(B) ==
    IF B = {} THEN <<>>
    ELSE LET m == CHOOSE x \in B : \A y \in B \ {x} : TupleLess(x, y)
         IN  <<m>> \o SortBusy(B \ {m})

\* A scan that misses a candidate starting inside a busy period
OverlapsBusyStartOnly(t, slot_end, b) == t <= b[1] /\ slot_end > b[1]

\* The overlap test of the busy scan: current_time < busy_end and slot_end > busy_start
OverlapsBusy(t, slot_end, b) == t < b[2] /\ slot_end > b[1]

\* The first busy period, in list order, that the candidate overlaps (0: none)
FirstConflict(t, slot_end, busy) ==
    IF \E i \in 1..Len(busy) : OverlapsBusy(t, slot_end, busy[i])
    THEN CHOOSE i \in 1..Len(busy) :
            /\ OverlapsBusy(t, slot_end, busy[i])
            /\ \A j \in 1..(i - 1) : ~OverlapsBusy(t, slot_end, busy[j])
    ELSE 0

\* "Ensure slot doesn't extend past work hours": the test the code makes on slot_end
PastWorkEnd(slot_end, we) ==
    HourOf(slot_end) > we \/ (HourOf(slot_end) = we /\ MinuteOf(slot_end) > 0)

\* The cursor after the first branch of an iteration (hour < work_hours_start: snap)
Snapped(t, ws) == IF HourOf(t) < ws THEN ReplaceHour(t, ws) ELSE t

NextDayStart(t, ws) == ReplaceHour(t + MinutesPerDay, ws)

\* The relational store with no row in any table
EmptyTables ==
    [tasks |-> {}, projects |-> {}, people |-> {}, daily_logs |-> {},
     task_tags |-> EmptyBag, task_people |-> EmptyBag]

\* The day the sync clock starts at
SyncStart == 10

NoCount == [calendar_to_tasks |-> 0, tasks_to_calendar |-> 0]

NoCalls == [update_event |-> 0, delete_event |-> 0, task_write |-> 0]

\* The concurrent callers of the session manager
Callers == {1, 2}

\* result = {"committed": False, "pulled": False, "pushed": False,
\* "conflicts": [], "errors": []}; conflict_resolved is a key only once it is set
NewResult ==
    [committed |-> FALSE, pulled |-> FALSE, pushed |-> FALSE, conflicts |-> {},
     errors |-> 0, conflict_resolved |-> FALSE]

\* Nothing met yet: no commit made, pull_changes not called, no step failed
NoLog ==
    [commit |-> NULL, pull_status |-> NULL, resolved |-> NULL, push_failed |-> FALSE,
     commit_failed |-> FALSE, rebuilt |-> FALSE]

\* Before any call: every component at rest
Rest ==
    /\ sfPc = "idle"
    /\ sfIn = NULL
    /\ current_time = 0
    /\ free_slots = <<>>
    /\ sfJumped = FALSE
    /\ notifications = <<>>
    /\ ntNow = 0
    /\ ntPc = "idle"
    /\ ntPending = <<>>
    /\ ntCount = 0
    /\ ntTrace = <<>>
    /\ ntEscalated = {}
    /\ ntStart = NULL
    /\ ntRuns = 0
    /\ ntPriority = NULL
    /\ bot_sessions = {}
    /\ conversation_messages = {}
    /\ csTxn = NULL
    /\ csPc = [p \in Callers |-> "idle"]
    /\ csLoc = [p \in Callers |-> NULL]
    /\ csNow = 0
    /\ csNextId = 1
    /\ csReturned = {}
    /\ csResult = NULL
    /\ vault = <<>>
    /\ schema = NULL
    /\ db = EmptyTables
    /\ ixConn = NULL
    /\ ixPc = "unset"
    /\ ixPos = 0
    /\ ixCalls = 0
    /\ ixAfterFirst = NULL
    /\ ixOps = <<>>
    /\ calendar = <<>>
    /\ calendar_sync = {}
    /\ syPc = "unset"
    /\ syNow = SyncStart
    /\ syEvents = <<>>
    /\ syTasks = {}
    /\ syCount = NoCount
    /\ syLog = NoCalls
    /\ syResults = <<>>
    /\ syStart = NULL
    /\ syTrace = <<>>
    /\ gsPc = "idle"
    /\ gsDirty = FALSE
    /\ gsLocal = {}
    /\ gsRemote = {}
    /\ gsNextCommit = 1
    /\ gsResult = NewResult
    /\ gsLog = NoLog
    /\ gsRuns = 0

\* find_free_slots is called: arguments bound, busy periods fetched and sorted
FindFreeSlots(dur, tmin, span, wh, B, ms) ==
    /\ sfPc = "idle"
    /\ sfIn' = [duration_minutes |-> dur, time_min |-> tmin, time_max |-> tmin + span,
                work_hours_start |-> wh[1], work_hours_end |-> wh[2],
                busy_periods |-> SortBusy(B), max_slots |-> ms,
                queries |-> 1, query_failed |-> FALSE]
    /\ current_time' = tmin
    /\ free_slots' = <<>>
    /\ sfJumped' = FALSE
    /\ sfPc' = "loop"
    /\ UNCHANGED notSf

\* A failure of the query taken for an empty calendar
QueryFailureSwallowed == "loop"

\* await self.get_free_busy(...) raises: the exception leaves find_free_slots
QueryFailureRaised == "raised"

\* find_free_slots is called and the free/busy query fails
FindFreeSlotsQueryFails(dur, tmin, span, wh, ms) ==
    /\ sfPc = "idle"
    /\ sfIn' = [duration_minutes |-> dur, time_min |-> tmin, time_max |-> tmin + span,
                work_hours_start |-> wh[1], work_hours_end |-> wh[2],
                busy_periods |-> <<>>, max_slots |-> ms,
                queries |-> 1, query_failed |-> TRUE]
    /\ current_time' = tmin
    /\ free_slots' = <<>>
    /\ sfJumped' = FALSE
    /\ sfPc' = QueryFailureRaised
    /\ UNCHANGED notSf

\* A loop that goes on until it has more than max_slots slots
LoopCondOneMore == current_time < sfIn.time_max /\ Len(free_slots) <= sfIn.max_slots

\* while current_time < time_max and len(free_slots) < max_slots
LoopCond == current_time < sfIn.time_max /\ Len(free_slots) < sfIn.max_slots

\* elif current_time.hour >= work_hours_end: move to next day, continue
IterAfterHours ==
    /\ sfPc = "loop" /\ LoopCond
    /\ HourOf(current_time) >= sfIn.work_hours_start
    /\ HourOf(current_time) >= sfIn.work_hours_end
    /\ current_time' = NextDayStart(current_time, sfIn.work_hours_start)
    /\ sfJumped' = FALSE
    /\ UNCHANGED <<sfPc, sfIn, free_slots, notSf>>

\* The cursor the rest of the iteration works on, once the hour checks passed
IterCursor == Snapped(current_time, sfIn.work_hours_start)

PassedHours ==
    /\ sfPc = "loop" /\ LoopCond
    /\ (HourOf(current_time) < sfIn.work_hours_start
        \/ HourOf(current_time) < sfIn.work_hours_end)

\* if current_time.weekday() >= 5: to next Monday at work start, continue
IterWeekend ==
    /\ PassedHours
    /\ WeekdayOf(IterCursor) >= 5
    /\ current_time' = ReplaceHour(
            IterCursor + (7 - WeekdayOf(IterCursor)) * MinutesPerDay,
            sfIn.work_hours_start)
    /\ sfJumped' = FALSE
    /\ UNCHANGED <<sfPc, sfIn, free_slots, notSf>>

IterSlotEnd == IterCursor + sfIn.duration_minutes

\* slot_end past work hours: move to next day, continue
IterPastWorkEnd ==
    /\ PassedHours
    /\ WeekdayOf(IterCursor) < 5
    /\ PastWorkEnd(IterSlotEnd, sfIn.work_hours_end)
    /\ current_time' = NextDayStart(IterCursor, sfIn.work_hours_start)
    /\ sfJumped' = FALSE
    /\ UNCHANGED <<sfPc, sfIn, free_slots, notSf>>

\* A cursor set to the start of the busy period
JumpToStart(t, b) == b[1]

\* A cursor that probes on in steps instead of jumping
ProbeOn(t, b) == t + SlotStep

\* current_time = busy_end
JumpTo(t, b) == b[2]

\* The candidate overlaps a busy period: jump to its end
IterBusy ==
    /\ PassedHours
    /\ WeekdayOf(IterCursor) < 5
    /\ ~PastWorkEnd(IterSlotEnd, sfIn.work_hours_end)
    /\ FirstConflict(IterCursor, IterSlotEnd, sfIn.busy_periods) # 0
    /\ current_time' = JumpTo(IterCursor,
         sfIn.busy_periods[FirstConflict(IterCursor, IterSlotEnd, sfIn.busy_periods)])
    /\ sfJumped' = TRUE
    /\ UNCHANGED <<sfPc, sfIn, free_slots, notSf>>

\* The candidate is free: emit it and advance by 15 minutes
IterEmit ==
    /\ PassedHours
    /\ WeekdayOf(IterCursor) < 5
    /\ ~PastWorkEnd(IterSlotEnd, sfIn.work_hours_end)
    /\ FirstConflict(IterCursor, IterSlotEnd, sfIn.busy_periods) = 0
    /\ free_slots' = Append(free_slots,
            [start |-> IterCursor, end |-> IterSlotEnd,
             duration_minutes |-> sfIn.duration_minutes, after_jump |-> sfJumped])
    /\ current_time' = IterCursor + SlotStep
    /\ sfJumped' = FALSE
    /\ UNCHANGED <<sfPc, sfIn, notSf>>

\* The loop condition fails: return free_slots
SlotsReturn ==
    /\ sfPc = "loop" /\ ~LoopCond
    /\ sfPc' = "done"
    /\ UNCHANGED <<sfIn, current_time, free_slots, sfJumped, notSf>>

SlotsNext ==
    \/ \E dur \in Durations, tmin \in TimeMins, span \in Spans, wh \in WorkHourPairs,
          B \in BusySets, ms \in 0..MaxSlots :
            FindFreeSlots(dur, tmin, span, wh, B, ms)
    \/ \E dur \in Durations, tmin \in TimeMins, span \in Spans, wh \in WorkHourPairs,
          ms \in 0..MaxSlots :
            FindFreeSlotsQueryFails(dur, tmin, span, wh, ms)
    \/ IterAfterHours
    \/ IterWeekend
    \/ IterPastWorkEnd
    \/ IterBusy
    \/ IterEmit
    \/ SlotsReturn

(***************************************************************************)
(* Notifications.  Time is counted in ticks of half a minute, so that      *)
(* elapsed_minutes = ticks / TicksPerMinute takes values between the       *)
(* whole minutes too.                                                      *)
(***************************************************************************)
TicksPerMinute == 2

\* ---- bounds
MaxNotifications == 2

MaxClock == 20

\* ---- program constants: the escalation thresholds, in minutes
EscalateAfter == 5

UrgentAfter == 10

NotificationTypes == {"morning_checkin"}

\* How far in the past track_notification's scheduled_for may lie, in minutes
ScheduledAgo == {3, 6, 11}

\* How much the clock may advance in one step, in ticks
ClockSteps == {5}

\* INSERT INTO notifications (id, type, scheduled_for): the other columns are NULL.
\* tracked_at is not a column: it records when the row was made.
TrackNotification(type, ago) ==
    /\ Len(notifications) < MaxNotifications
    /\ notifications' = Append(notifications,
            [type |-> type, scheduled_for |-> ntNow - ago * TicksPerMinute,
             sent_at |-> NULL, acknowledged_at |-> NULL, tracked_at |-> ntNow])
    /\ UNCHANGED <<ntNow, ntRun, notNt>>

\* What mark_as_sent stores in sent_at
SentAtValue(row) == Some(ntNow)

\* UPDATE notifications SET sent_at = now WHERE id = ?
MarkAsSent(id) ==
    /\ id \in 1..Len(notifications)
    /\ notifications' = [notifications EXCEPT ![id].sent_at = SentAtValue(notifications[id])]
    /\ UNCHANGED <<ntNow, ntRun, notNt>>

\* UPDATE notifications SET acknowledged_at = now WHERE id = ?
AcknowledgeNotification(id) ==
    /\ id \in 1..Len(notifications)
    /\ notifications' = [notifications EXCEPT ![id].acknowledged_at = Some(ntNow)]
    /\ UNCHANGED <<ntNow, ntRun, notNt>>

NotifyTick(d) ==
    /\ ntNow + d <= MaxClock
    /\ ntNow' = ntNow + d
    /\ UNCHANGED <<notifications, ntRun, notNt>>

\* get_notification: the row, or None
GetNotification(id) ==
    IF id \in 1..Len(notifications) THEN Some(notifications[id]) ELSE NULL

\* elapsed_minutes >= k, for elapsed_minutes = (now - sent_at).total_seconds() / 60
ElapsedAtLeast(row, k) == ntNow - Val(row.sent_at) >= k * TicksPerMinute

NeedsEscalation(id) ==
    LET n == GetNotification(id) IN
    IF n = NULL THEN FALSE
    ELSE IF Val(n).acknowledged_at # NULL THEN FALSE
    ELSE IF Val(n).sent_at = NULL THEN FALSE
    ELSE ElapsedAtLeast(Val(n), EscalateAfter)

\* Thresholds read the wrong way round: high only from 10 minutes, urgent never
PriorityOfElapsedLate(row) ==
    IF ~ElapsedAtLeast(row, UrgentAfter) THEN "default" ELSE "high"

\* The branch on elapsed_minutes at the end of get_escalation_priority
PriorityOfElapsed(row) ==
    IF ~ElapsedAtLeast(row, EscalateAfter) THEN "default"
    ELSE IF ~ElapsedAtLeast(row, UrgentAfter) THEN "high"
    ELSE "urgent"

GetEscalationPriority(id) ==
    LET n == GetNotification(id) IN
    IF n = NULL THEN "default"
    ELSE IF Val(n).sent_at = NULL THEN "default"
    ELSE IF Val(n).acknowledged_at # NULL THEN "default"
    ELSE PriorityOfElapsed(Val(n))

\* ---- escalate_pending_notifications
MaxEscalations == 2

\* Stored text that datetime.fromisoformat accepts: a column holds <<>> for
\* NULL, <<t>> for the ISO text of time t, and a longer sequence for any other text
IsoParses(text) == Len(text) = 1

\* A text that is no ISO time
NotIso == <<"not", "a time">>

\* SELECT * FROM notifications WHERE sent_at IS NOT NULL AND acknowledged_at IS NULL
Pending(id) ==
    /\ id \in 1..Len(notifications)
    /\ notifications[id].sent_at # NULL
    /\ notifications[id].acknowledged_at = NULL

\* A selection that forgets the acknowledgement
SentIds == { id \in 1..Len(notifications) : notifications[id].sent_at # NULL }

PendingIds == { id \in 1..Len(notifications) : Pending(id) }

\* ORDER BY sent_at DESC: the orders of the ids that a sort by the stored text
\* can return (equal texts in either order; a text that is no time sorts
\* wherever it falls)
PendingLists ==
    { s \in UNION { [1..n -> PendingIds] : n \in {Cardinality(PendingIds)} } :
        /\ \A i, j \in DOMAIN s : i # j => s[i] # s[j]
        /\ \A i, j \in DOMAIN s :
              (/\ i < j
               /\ IsoParses(notifications[s[i]].sent_at)
               /\ IsoParses(notifications[s[j]].sent_at))
              => Val(notifications[s[i]].sent_at) >= Val(notifications[s[j]].sent_at) }

\* get_pending_notifications, escalated_count = 0
EscalateBegin ==
    /\ ntPc \in {"idle", "returned", "raised"} /\ ntRuns < MaxEscalations
    /\ \E pending \in PendingLists : ntPending' = pending
    /\ ntPc' = "loop"
    /\ ntCount' = 0
    /\ ntTrace' = <<>>
    /\ ntEscalated' = ntEscalated \union
          { ntTrace[i].id : i \in { j \in DOMAIN ntTrace : ntTrace[j].sent } }
    /\ ntStart' = Some(notifications)
    /\ ntRuns' = ntRuns + 1
    /\ UNCHANGED <<notifications, ntNow, ntPriority, notNt>>

\* datetime.fromisoformat(notification["sent_at"]) raises ValueError: the row is
\* there, is not acknowledged and holds a sent_at that is no ISO text
FromIsoFormatRaises(id) ==
    /\ id \in 1..Len(notifications)
    /\ notifications[id].acknowledged_at = NULL
    /\ notifications[id].sent_at # NULL
    /\ ~IsoParses(notifications[id].sent_at)

\* What the loop notes of one notification
Examined(id, sent, priority, ok) ==
    [id |-> id, at |-> ntNow, sent |-> sent, priority |-> priority, ok |-> ok]

\* A count that skips the notifications whose message the service refused
CountDelivered(count, ok) == IF ok THEN count + 1 ELSE count

\* escalated_count += 1, whatever send_notification returned
CountEscalated(count, ok) == count + 1

\* The loop body for a notification that needs escalation: send_notification
\* (which returns sent: False instead of raising), escalated_count += 1
EscalateSend(ok) ==
    /\ ntPc = "loop" /\ ntPending # <<>>
    /\ ~FromIsoFormatRaises(Head(ntPending))
    /\ NeedsEscalation(Head(ntPending))
    /\ ntTrace' = Append(ntTrace,
          Examined(Head(ntPending), TRUE, GetEscalationPriority(Head(ntPending)), ok))
    /\ ntCount' = CountEscalated(ntCount, ok)
    /\ ntPending' = Tail(ntPending)
    /\ UNCHANGED <<notifications, ntNow, ntPc, ntEscalated, ntStart, ntRuns, ntPriority, notNt>>

\* The loop body for a notification that needs no escalation
EscalateSkip ==
    /\ ntPc = "loop" /\ ntPending # <<>>
    /\ ~FromIsoFormatRaises(Head(ntPending))
    /\ ~NeedsEscalation(Head(ntPending))
    /\ ntTrace' = Append(ntTrace, Examined(Head(ntPending), FALSE, "default", FALSE))
    /\ ntPending' = Tail(ntPending)
    /\ UNCHANGED <<notifications, ntNow, ntPc, ntCount, ntEscalated, ntStart, ntRuns,
                   ntPriority, notNt>>

\* needs_escalation raises out of the loop
EscalateRaise ==
    /\ ntPc = "loop" /\ ntPending # <<>>
    /\ FromIsoFormatRaises(Head(ntPending))
    /\ ntPc' = "raised"
    /\ UNCHANGED <<notifications, ntNow, ntPending, ntCount, ntTrace, ntEscalated,
                   ntStart, ntRuns, ntPriority, notNt>>

\* return escalated_count
EscalateReturn ==
    /\ ntPc = "loop" /\ ntPending = <<>>
    /\ ntPc' = "returned"
    /\ UNCHANGED <<notifications, ntNow, ntPending, ntCount, ntTrace, ntEscalated,
                   ntStart, ntRuns, ntPriority, notNt>>

\* A sent_at that some other writer of the database file stored
StoreSentAt(id, text) ==
    /\ id \in 1..Len(notifications)
    /\ notifications' = [notifications EXCEPT ![id].sent_at = text]
    /\ UNCHANGED <<ntNow, ntRun, notNt>>

\* The operations of the manager, taken one at a time while the clock runs
NotBusy == ntPc \in {"idle", "returned", "raised"}

SerialTrack(type, ago) == NotBusy /\ TrackNotification(type, ago)

SerialMarkAsSent(id) == NotBusy /\ MarkAsSent(id)

SerialAcknowledge(id) == NotBusy /\ AcknowledgeNotification(id)

EscalateNext ==
    \/ \E type \in NotificationTypes : SerialTrack(type, 3)
    \/ \E id \in 1..MaxNotifications : SerialMarkAsSent(id)
    \/ \E id \in 1..MaxNotifications : SerialAcknowledge(id)
    \/ \E d \in ClockSteps : NotifyTick(d)
    \/ EscalateBegin
    \/ \E ok \in BOOLEAN : EscalateSend(ok)
    \/ EscalateSkip
    \/ EscalateReturn

\* ---- the loop body of escalate_pending_notifications call by call, for the
\* callers that run while it is at work
\* if await self.needs_escalation(notification_id): the row is read
EscalateNeeds ==
    /\ ntPc = "loop" /\ ntPending # <<>>
    /\ ~FromIsoFormatRaises(Head(ntPending))
    /\ NeedsEscalation(Head(ntPending))
    /\ ntPc' = "priority"
    /\ UNCHANGED <<notifications, ntNow, ntPending, ntCount, ntTrace, ntEscalated,
                   ntStart, ntRuns, ntPriority, notNt>>

\* priority = await self.get_escalation_priority(notification_id): the row is
\* read again
EscalatePriority ==
    /\ ntPc = "priority"
    /\ ~FromIsoFormatRaises(Head(ntPending))
    /\ ntPriority' = Some(GetEscalationPriority(Head(ntPending)))
    /\ ntPc' = "send"
    /\ UNCHANGED <<notifications, ntNow, ntPending, ntCount, ntTrace, ntEscalated,
                   ntStart, ntRuns, notNt>>

\* await self.send_notification(title, message, priority, tags);
\* escalated_count += 1
EscalateDeliver(ok) ==
    /\ ntPc = "send"
    /\ ntTrace' = Append(ntTrace, Examined(Head(ntPending), TRUE, Val(ntPriority), ok))
    /\ ntCount' = CountEscalated(ntCount, ok)
    /\ ntPending' = Tail(ntPending)
    /\ ntPriority' = NULL
    /\ ntPc' = "loop"
    /\ UNCHANGED <<notifications, ntNow, ntEscalated, ntStart, ntRuns, notNt>>

\* acknowledge_notification called while the loop is at work, the other calls
\* between the runs
InterleavedNext ==
    \/ \E type \in NotificationTypes : SerialTrack(type, 3)
    \/ \E id \in 1..MaxNotifications : SerialMarkAsSent(id)
    \/ \E id \in 1..MaxNotifications : AcknowledgeNotification(id)
    \/ \E d \in ClockSteps : NotifyTick(d)
    \/ EscalateBegin
    \/ EscalateNeeds
    \/ EscalatePriority
    \/ \E ok \in BOOLEAN : EscalateDeliver(ok)
    \/ EscalateSkip
    \/ EscalateReturn

SerialStoreSentAt(id) == NotBusy /\ StoreSentAt(id, NotIso)

ForeignNext ==
    \/ EscalateNext
    \/ \E id \in 1..MaxNotifications : SerialStoreSentAt(id)
    \/ EscalateRaise

NotifyNext ==
    \/ \E type \in NotificationTypes, ago \in ScheduledAgo : TrackNotification(type, ago)
    \/ \E id \in 1..MaxNotifications : MarkAsSent(id)
    \/ \E id \in 1..MaxNotifications : AcknowledgeNotification(id)
    \/ \E d \in ClockSteps : NotifyTick(d)

(***************************************************************************)
(* Conversation sessions.  Every aiosqlite.connect block is one SQLite     *)
(* transaction: its writes become visible to the other connections at      *)
(* commit, and while it is open no other connection can write (a second    *)
(* writer waits on the lock, or gives up with "database is locked" having  *)
(* written nothing).  A step that reads datetime.now() is followed by d    *)
(* minutes passing, d drawn from the step set of the specification.        *)
(***************************************************************************)
\* ---- bounds
MaxSessions == 3

MaxMessages == 2

MaxSessionClock == 7

\* ConversationManager(timeout_minutes=...)
TimeoutMinutes == 2

Users == {"u1"}

ContextTypes == {"general", "task"}

SessionSteps == {1, 2}

\* How much the clock may advance after the clock reading of the create_session
\* call inside get_or_create_session (the lookup before it took time already)
CreateSteps == {0, 1}

\* A session id some caller may pass: one that uuid4 has issued, or 0, a string
\* that no session ever gets
KnownIds == 0..(csNextId - 1)

WriteLockFree == csTxn = NULL

AllIdle == \A q \in Callers : csPc[q] = "idle"

\* A session is live iff now < expires_at
Live(row, now) == now < row.expires_at

\* The chat a user writes from
ChatOf(u) == <<"chat", u>>

\* The row create_session inserts
NewSession(id, u, c, now) ==
    [session_id |-> id, telegram_user_id |-> u, telegram_chat_id |-> ChatOf(u),
     context_type |-> c,
     created_at |-> now, updated_at |-> now, expires_at |-> now + TimeoutMinutes,
     message_count |-> 0]

\* create_session: INSERT INTO bot_sessions, commit
CreateSession(p, u, c, d) ==
    /\ csPc[p] = "idle" /\ WriteLockFree
    /\ csNextId <= MaxSessions /\ csNow + d <= MaxSessionClock
    /\ bot_sessions' = bot_sessions \union {NewSession(csNextId, u, c, csNow)}
    /\ csNextId' = csNextId + 1
    /\ csNow' = csNow + d
    /\ csResult' = NULL
    /\ UNCHANGED <<conversation_messages, csTxn, csPc, csLoc, csReturned, notCs>>

KeyRows(u, c) ==
    { r \in bot_sessions : r.telegram_user_id = u /\ r.context_type = c }

\* ORDER BY created_at ASC LIMIT 1: the oldest row of the key
OldestRows(u, c) ==
    { r \in KeyRows(u, c) : \A o \in KeyRows(u, c) : o.created_at >= r.created_at }

\* ORDER BY created_at DESC LIMIT 1: a row of the key with the greatest created_at
MostRecentRows(u, c) ==
    { r \in KeyRows(u, c) : \A o \in KeyRows(u, c) : o.created_at <= r.created_at }

\* get_or_create_session, the lookup finds a live session: return it
GocReuse(p, u, c, d) ==
    /\ csPc[p] = "idle"
    /\ csNow + d <= MaxSessionClock
    /\ \E r \in MostRecentRows(u, c) :
        /\ Live(r, csNow)
        /\ csReturned' = csReturned \union {r.session_id}
    /\ csNow' = csNow + d
    /\ csResult' = NULL
    /\ UNCHANGED <<bot_sessions, conversation_messages, csTxn, csPc, csLoc,
                   csNextId, notCs>>

\* get_or_create_session, the lookup finds no row or an expired one: go on to
\* create_session
GocMiss(p, u, c, d) ==
    /\ csPc[p] = "idle"
    /\ csNextId <= MaxSessions /\ csNow + d <= MaxSessionClock
    /\ \/ MostRecentRows(u, c) = {}
       \/ \E r \in MostRecentRows(u, c) : ~Live(r, csNow)
    /\ csPc' = [csPc EXCEPT ![p] = "goc_create"]
    /\ csLoc' = [csLoc EXCEPT ![p] = Some([user |-> u, context_type |-> c])]
    /\ csNow' = csNow + d
    /\ csResult' = NULL
    /\ UNCHANGED <<bot_sessions, conversation_messages, csTxn, csNextId,
                   csReturned, notCs>>

\* A create step that looks the key up again and inserts nothing when a live
\* session of the key is there by now
CreatedUnlessLive(p) ==
    IF \E r \in bot_sessions :
          /\ r.telegram_user_id = Val(csLoc[p]).user
          /\ r.context_type = Val(csLoc[p]).context_type
          /\ Live(r, csNow)
    THEN {}
    ELSE {NewSession(csNextId, Val(csLoc[p]).user, Val(csLoc[p]).context_type, csNow)}

\* return await self.create_session(...): the row inserted for the key that the
\* lookup missed, with no second lookup
CreatedRow(p) ==
    {NewSession(csNextId, Val(csLoc[p]).user, Val(csLoc[p]).context_type, csNow)}

\* get_or_create_session, the create_session call at its end
GocCreate(p, d) ==
    /\ csPc[p] = "goc_create" /\ WriteLockFree
    /\ csNextId <= MaxSessions /\ csNow + d <= MaxSessionClock
    /\ bot_sessions' = bot_sessions \union CreatedRow(p)
    /\ csReturned' = csReturned \union {csNextId}
    /\ csNextId' = csNextId + 1
    /\ csNow' = csNow + d
    /\ csPc' = [csPc EXCEPT ![p] = "idle"]
    /\ csLoc' = [csLoc EXCEPT ![p] = NULL]
    /\ csResult' = NULL
    /\ UNCHANGED <<conversation_messages, csTxn, notCs>>

\* A fresh uuid4 for a message: an id no row of conversation_messages has
NextMessageId ==
    LET ids == { m.id : m \in conversation_messages }
    IN  IF ids = {} THEN 1 ELSE 1 + (CHOOSE i \in ids : \A j \in ids : j <= i)

\* add_message, INSERT INTO conversation_messages: the transaction opens
AddInsert(p, sid, d) ==
    /\ csPc[p] = "idle" /\ WriteLockFree
    /\ Cardinality(conversation_messages) < MaxMessages
    /\ csNow + d <= MaxSessionClock
    /\ csTxn' = Some([owner |-> p, sessions |-> bot_sessions,
                      messages |-> conversation_messages \union
                          {[id |-> NextMessageId,
                            session_id |-> sid, created_at |-> csNow]}])
    /\ csPc' = [csPc EXCEPT ![p] = "add_update"]
    /\ csLoc' = [csLoc EXCEPT ![p] = Some([session_id |-> sid, now |-> csNow])]
    /\ csNow' = csNow + d
    /\ csResult' = NULL
    /\ UNCHANGED <<bot_sessions, conversation_messages, csNextId, csReturned, notCs>>

\* An UPDATE that writes the count back unchanged
MessageCountLost(row) == row.message_count

\* SET message_count = message_count + 1
MessageCountAfter(row) == row.message_count + 1

\* An UPDATE that starts the timeout afresh as well
ExtendedSession(row, now) ==
    [row EXCEPT !.message_count = MessageCountAfter(row), !.updated_at = now,
                !.expires_at = now + TimeoutMinutes]

\* SET message_count = message_count + 1, updated_at = ?
UpdatedSession(row, now) ==
    [row EXCEPT !.message_count = MessageCountAfter(row), !.updated_at = now]

\* add_message, UPDATE bot_sessions ... WHERE session_id = ?
AddUpdate(p) ==
    /\ csPc[p] = "add_update"
    /\ csTxn' = Some([Val(csTxn) EXCEPT !.sessions =
          { IF r.session_id = Val(csLoc[p]).session_id
               THEN UpdatedSession(r, Val(csLoc[p]).now)
               ELSE r : r \in Val(csTxn).sessions }])
    /\ csPc' = [csPc EXCEPT ![p] = "add_commit"]
    /\ csResult' = NULL
    /\ UNCHANGED <<bot_sessions, conversation_messages, csLoc, csNow, csNextId,
                   csReturned, notCs>>

\* add_message, conn.commit()
AddCommit(p) ==
    /\ csPc[p] = "add_commit"
    /\ bot_sessions' = Val(csTxn).sessions
    /\ conversation_messages' = Val(csTxn).messages
    /\ csTxn' = NULL
    /\ csPc' = [csPc EXCEPT ![p] = "idle"]
    /\ csLoc' = [csLoc EXCEPT ![p] = NULL]
    /\ csResult' = NULL
    /\ UNCHANGED <<csNow, csNextId, csReturned, notCs>>

\* end_session: UPDATE bot_sessions SET expires_at = now WHERE session_id = ?
EndSession(p, sid, d) ==
    /\ csPc[p] = "idle" /\ WriteLockFree
    /\ csNow + d <= MaxSessionClock
    /\ \E r \in bot_sessions : r.session_id = sid
    /\ bot_sessions' = { IF r.session_id = sid THEN [r EXCEPT !.expires_at = csNow]
                         ELSE r : r \in bot_sessions }
    /\ csNow' = csNow + d
    /\ csResult' = NULL
    /\ UNCHANGED <<conversation_messages, csTxn, csPc, csLoc, csNextId,
                   csReturned, notCs>>

\* The rows SELECT * FROM bot_sessions WHERE session_id = ? finds
SessionRows(sid) == { r \in bot_sessions : r.session_id = sid }

\* get_session's value: None without a row, None when now > expires_at, else
\* the row
GetSession(sid, now) ==
    IF SessionRows(sid) = {} THEN NULL
    ELSE LET row == CHOOSE r \in SessionRows(sid) : TRUE
         IN  IF now > row.expires_at THEN NULL ELSE Some(row)

\* What a reading call leaves behind: the row it found and what it returned
Result(op, sid, now, returned, at_limit, removed) ==
    Some([op |-> op, session_id |-> sid, now |-> now,
          row |-> IF SessionRows(sid) = {} THEN NULL
                  ELSE Some(CHOOSE r \in SessionRows(sid) : TRUE),
          returned |-> returned, at_limit |-> at_limit, removed |-> removed])

\* get_session(sid), called by p
GetSessionCall(p, sid, d) ==
    /\ csPc[p] = "idle"
    /\ csNow + d <= MaxSessionClock
    /\ csResult' = Result("get_session", sid, csNow, GetSession(sid, csNow), FALSE, {})
    /\ csNow' = csNow + d
    /\ UNCHANGED <<bot_sessions, conversation_messages, csTxn, csPc, csLoc, csNextId,
                   csReturned, notCs>>

\* ConversationManager(max_messages=...)
max_messages == 1

\* A limit test that lets the count reach the limit
OverMessageLimit(session) == session.message_count > max_messages

\* session["message_count"] >= self.max_messages
AtMessageLimit(session) == session.message_count >= max_messages

\* is_at_message_limit's value: True without a session, else the limit test
IsAtMessageLimit(sid, now) ==
    IF GetSession(sid, now) = NULL THEN TRUE
    ELSE AtMessageLimit(Val(GetSession(sid, now)))

\* is_at_message_limit(sid), called by p
IsAtMessageLimitCall(p, sid, d) ==
    /\ csPc[p] = "idle"
    /\ csNow + d <= MaxSessionClock
    /\ csResult' = Result("is_at_message_limit", sid, csNow, GetSession(sid, csNow),
                          IsAtMessageLimit(sid, csNow), {})
    /\ csNow' = csNow + d
    /\ UNCHANGED <<bot_sessions, conversation_messages, csTxn, csPc, csLoc, csNextId,
                   csReturned, notCs>>

\* A selection that takes the sessions expiring at this very instant too
ExpiredOrExpiring(now) == { r \in bot_sessions : r.expires_at <= now }

\* SELECT session_id FROM bot_sessions WHERE expires_at < ?
ExpiredSessions(now) == { r \in bot_sessions : r.expires_at < now }

\* cleanup_expired_sessions: the two DELETEs and the commit of one connection
CleanupExpiredSessions(p, d) ==
    /\ csPc[p] = "idle" /\ WriteLockFree
    /\ csNow + d <= MaxSessionClock
    /\ LET expired_sessions == { r.session_id : r \in ExpiredSessions(csNow) }
       IN  /\ conversation_messages' =
                { m \in conversation_messages : m.session_id \notin expired_sessions }
           /\ bot_sessions' =
                { r \in bot_sessions : r.session_id \notin expired_sessions }
           /\ csResult' = Result("cleanup_expired_sessions", 0, csNow, NULL, FALSE,
                                 expired_sessions)
    /\ csNow' = csNow + d
    /\ UNCHANGED <<csTxn, csPc, csLoc, csNextId, csReturned, notCs>>

\* The calls of one caller at a time: a call starts when no call is under way
SerialGocReuse(p, u, c, d) == AllIdle /\ GocReuse(p, u, c, d)

SerialGocMiss(p, u, c, d) == AllIdle /\ GocMiss(p, u, c, d)

SerialAddInsert(p, sid, d) == AllIdle /\ AddInsert(p, sid, d)

SerialEndSession(p, sid, d) == AllIdle /\ EndSession(p, sid, d)

SessionsNext ==
    \E p \in Callers :
        \/ \E d \in SessionSteps, u \in Users, c \in ContextTypes : SerialGocReuse(p, u, c, d)
        \/ \E d \in SessionSteps, u \in Users, c \in ContextTypes : SerialGocMiss(p, u, c, d)
        \/ \E d \in CreateSteps : GocCreate(p, d)
        \/ \E d \in SessionSteps, sid \in KnownIds : SerialAddInsert(p, sid, d)
        \/ AddUpdate(p)
        \/ AddCommit(p)
        \/ \E d \in SessionSteps, sid \in KnownIds : SerialEndSession(p, sid, d)

\* Callers that interleave freely, create_session called directly too
MessagesNext ==
    \E p \in Callers :
        \/ \E d \in SessionSteps, u \in Users, c \in ContextTypes : CreateSession(p, u, c, d)
        \/ \E d \in SessionSteps, sid \in KnownIds : AddInsert(p, sid, d)
        \/ AddUpdate(p)
        \/ AddCommit(p)

\* The whole life of the sessions, one call at a time.  A clock reading may
\* repeat the one before it (datetime.now() is the wall clock).
MaxLifeClock == 3

LifeSteps == { d \in {0, 1} : csNow + d <= MaxLifeClock }

MaxLifeSessions == 2

\* The keys a caller may still ask a new session for
NewKeys == { c \in ContextTypes : csNextId <= MaxLifeSessions }

SerialGetSession(p, sid, d) == AllIdle /\ GetSessionCall(p, sid, d)

SerialIsAtMessageLimit(p, sid, d) == AllIdle /\ IsAtMessageLimitCall(p, sid, d)

SerialCleanup(p, d) == AllIdle /\ CleanupExpiredSessions(p, d)

LifecycleNext ==
    \E p \in {1} :
        \/ \E d \in LifeSteps, u \in Users, c \in ContextTypes : SerialGocReuse(p, u, c, d)
        \/ \E d \in LifeSteps, u \in Users, c \in NewKeys : SerialGocMiss(p, u, c, d)
        \/ \E d \in LifeSteps : GocCreate(p, d)
        \/ \E d \in LifeSteps, sid \in KnownIds : SerialAddInsert(p, sid, d)
        \/ AddUpdate(p)
        \/ AddCommit(p)
        \/ \E d \in LifeSteps, sid \in KnownIds : SerialEndSession(p, sid, d)
        \/ \E d \in LifeSteps, sid \in KnownIds : SerialGetSession(p, sid, d)
        \/ \E d \in LifeSteps, sid \in KnownIds : SerialIsAtMessageLimit(p, sid, d)
        \/ \E d \in LifeSteps : SerialCleanup(p, d)

\* Callers of get_or_create_session whose lookups and creates interleave
RaceNext ==
    \E p \in Callers :
        \/ \E d \in SessionSteps, u \in Users, c \in ContextTypes : GocReuse(p, u, c, d)
        \/ \E d \in SessionSteps, u \in Users, c \in ContextTypes : GocMiss(p, u, c, d)
        \/ \E d \in CreateSteps : GocCreate(p, d)

SpecRace == Rest /\ [][RaceNext]_vars

SpecSessions == Rest /\ [][SessionsNext]_vars

SpecLifecycle == Rest /\ [][LifecycleNext]_vars

SpecMessages == Rest /\ [][MessagesNext]_vars

(***************************************************************************)
(* The vault and its relational index.  A file is [top, sub, name, parses,  *)
(* meta]: its top-level folder, the folder below it, its name as            *)
(* <<prefix, rest>>, whether frontmatter.load can parse its header, and the *)
(* header's fields.  rebuild_index works on one connection: the DELETEs are *)
(* committed, the INSERTs of the four _index_* loops are committed at the   *)
(* end, and an exception closes the connection, which rolls them back.      *)
(***************************************************************************)
\* ---- bounds
MaxRebuilds == 2

MaxVaultFiles == 4

Meta(id, status, tags, people_ids) ==
    [id |-> id, title |-> id, status |-> status, tags |-> tags,
     people_ids |-> people_ids, updated_at |-> 0, completed_at |-> NULL,
     scheduled_start |-> NULL, scheduled_end |-> NULL, calendar_event_id |-> NULL]

File(top, sub, name, parses, meta) ==
    [top |-> top, sub |-> sub, name |-> name, parses |-> parses, meta |-> meta]

\* The files a vault may hold, in directory-walk order.  A name is
\* <<prefix, stem, extension>>, sub the folders between top and the file.
FilePool ==
    << File("01-tasks", <<"active">>, <<"task-", "t1", ".md">>, TRUE,
            Meta("t1", "active", <<"work">>, <<>>)),
       File("01-tasks", <<"active">>, <<"task-", "t2", ".md">>, TRUE,
            Meta("t2", "active", <<"work", "home">>, <<"p1">>)),
       File("01-tasks", <<"active">>, <<"task-", "bad", ".md">>, FALSE,
            Meta("bad", "active", <<>>, <<>>)),
       File("01-tasks", <<"active">>, <<"", "notes", ".md">>, TRUE,
            Meta("n1", "active", <<>>, <<>>)),
       File("01-tasks", <<"completed", "2026-01">>, <<"task-", "t1", ".md">>, TRUE,
            Meta("t1", "completed", <<>>, <<>>)),
       File("01-tasks", <<"someday">>, <<"task-", "t3", ".md">>, TRUE,
            Meta("t3", "someday", <<>>, <<>>)),
       File("02-projects", <<>>, <<"project-", "alpha", ".md">>, TRUE,
            Meta("alpha", "active", <<>>, <<>>)),
       File("03-people", <<>>, <<"person-", "p1", ".md">>, TRUE,
            Meta("p1", "", <<>>, <<>>)),
       File("04-daily-logs", <<>>, <<"2", "026-01-31", ".md">>, TRUE,
            Meta("2026-01-31", "", <<>>, <<>>)),
       File("04-daily-logs", <<>>, <<"", "README", ".md">>, TRUE,
            Meta("readme", "", <<>>, <<>>)),
       File("04-daily-logs", <<>>, <<"2", "026-plans", ".md">>, TRUE,
            Meta("plans", "", <<>>, <<>>)),
       File("04-daily-logs", <<>>, <<"1", "999-12-31", ".md">>, TRUE,
            Meta("1999-12-31", "", <<>>, <<>>)) >>

RECURSIVE PickFrom(_, _, _)
\* The elements of pool whose indexes are in I, in the pool's order
PickFrom(pool, I, n) ==
    IF n = 0 THEN <<>>
    ELSE IF n \in I THEN Append(PickFrom(pool, I, n - 1), pool[n])
    ELSE PickFrom(pool, I, n - 1)

SmallSubsets(n, max) == { J \in SUBSET (1..n) : Cardinality(J) <= max }

Vaults ==
    { PickFrom(FilePool, I, Len(FilePool)) :
        I \in SmallSubsets(Len(FilePool), MaxVaultFiles) }

FilePath(f) == [top |-> f.top, sub |-> f.sub, name |-> f.name]

\* What the index may hold before a rebuild: nothing, or rows of a task file that
\* is no longer in the vault
\* The row an _index_* loop inserts for a file
\* (the columns the model follows; tags and people_ids go to the side tables)
RowOf(f) ==
    [id |-> f.meta.id, title |-> f.meta.title, status |-> f.meta.status,
     updated_at |-> f.meta.updated_at, completed_at |-> f.meta.completed_at,
     scheduled_start |-> f.meta.scheduled_start,
     scheduled_end |-> f.meta.scheduled_end,
     calendar_event_id |-> f.meta.calendar_event_id, file_path |-> FilePath(f)]

GoneTaskRow ==
    RowOf(File("01-tasks", <<"active">>, <<"task-", "gone", ".md">>, TRUE,
               Meta("gone", "active", <<"work">>, <<>>)))

PriorIndexes ==
    { EmptyTables,
      [EmptyTables EXCEPT
         !.tasks = {GoneTaskRow},
         !.task_tags = SetToBag({<<"gone", "work">>})] }

\* The constraints the migration may declare: whether the id column of tasks,
\* projects, people and daily_logs is a key, and whether (task_id, tag) and
\* (task_id, person_id) are keys of the side tables
SchemaChoices == [id_unique : BOOLEAN, side_unique : BOOLEAN]

\* A vault, an index and a schema to work on
VaultSetup(v, prior, sch) ==
    /\ ixPc = "unset"
    /\ vault' = v
    /\ db' = prior
    /\ schema' = Some(sch)
    /\ ixPc' = "idle"
    /\ UNCHANGED <<ixConn, ixPos, ixCalls, ixAfterFirst, ixOps, notIx>>

\* One entry of ixOps: the method called and, for create_task_file, its task_data
Call(op, task) == [op |-> op, task |-> task]

\* A rebuild that clears no table
WipeNothing(t) == t

\* "Clear existing index": DELETE FROM tasks, projects, people, daily_logs
WipeIndex(t) ==
    [t EXCEPT !.tasks = {}, !.projects = {}, !.people = {}, !.daily_logs = {}]

\* The committed tables were the DELETEs left pending until the final commit
WipePending(t) == t

\* await conn.commit() after the four DELETEs: the committed tables are the
\* wiped ones before the first INSERT
WipeCommitted(t) == WipeIndex(t)

\* rebuild_index: connect, clear the index, commit
RebuildWipe ==
    /\ ixPc \in {"idle", "done", "raised"}
    /\ ixCalls < MaxRebuilds
    /\ ixCalls' = ixCalls + 1
    /\ ixAfterFirst' = IF ixCalls = 1 THEN Some([tables |-> db, ended |-> ixPc])
                       ELSE ixAfterFirst
    /\ db' = WipeCommitted(db)
    /\ ixConn' = Some(WipeIndex(db))
    /\ ixPc' = "tasks"
    /\ ixPos' = 0
    /\ ixOps' = Append(ixOps, Call("rebuild_index", NULL))
    /\ UNCHANGED <<vault, schema, notIx>>

\* tasks_path.rglob("task-*.md")
IsTaskFile(f) == f.top = "01-tasks" /\ f.name[1] = "task-" /\ f.name[3] = ".md"

\* projects_path.glob("project-*.md")
IsProjectFile(f) ==
    f.top = "02-projects" /\ f.sub = <<>> /\ f.name[1] = "project-" /\ f.name[3] = ".md"

\* people_path.glob("person-*.md")
IsPersonFile(f) ==
    f.top = "03-people" /\ f.sub = <<>> /\ f.name[1] = "person-" /\ f.name[3] = ".md"

\* logs_path.rglob("*.md") with log_file.name.startswith("2")
IsDailyLogFile(f) == f.top = "04-daily-logs" /\ f.name[3] = ".md" /\ f.name[1] = "2"

\* The files the loop at position pc walks
LoopFiles(pc) ==
    CASE pc = "tasks" -> SelectSeq(vault, IsTaskFile)
      [] pc = "projects" -> SelectSeq(vault, IsProjectFile)
      [] pc = "people" -> SelectSeq(vault, IsPersonFile)
      [] pc = "daily_logs" -> SelectSeq(vault, IsDailyLogFile)
      [] OTHER -> <<>>

NextLoop(pc) ==
    CASE pc = "tasks" -> "projects"
      [] pc = "projects" -> "people"
      [] pc = "people" -> "daily_logs"
      [] pc = "daily_logs" -> "commit"

\* The file the current loop is at
CurrentFile == LoopFiles(ixPc)[ixPos + 1]

InLoop == ixPc \in {"tasks", "projects", "people", "daily_logs"}

\* INSERT of a row whose id is in the table already fails when id is a key
IdTaken(table, f) ==
    Val(schema).id_unique /\ \E r \in table : r.id = f.meta.id

RECURSIVE InsertSide(_, _, _)
\* The side table after one INSERT per element of list, or NULL when one fails
InsertSide(bag, id, list) ==
    IF list = <<>> THEN Some(bag)
    ELSE IF Val(schema).side_unique /\ BagIn(<<id, Head(list)>>, bag) THEN NULL
    ELSE InsertSide(bag (+) SetToBag({<<id, Head(list)>>}), id, Tail(list))

\* with open(...): frontmatter.load(f) raises on a header it cannot parse
ParseFails(f) == ~f.parses

\* The connection's view after the inserts for one task file
TagsAfter(f) == InsertSide(Val(ixConn).task_tags, f.meta.id, f.meta.tags)

PeopleAfter(f) == InsertSide(Val(ixConn).task_people, f.meta.id, f.meta.people_ids)

\* _index_tasks, one file: INSERT INTO tasks, task_tags, task_people
IndexTask ==
    /\ ixPc = "tasks" /\ ixPos < Len(LoopFiles(ixPc))
    /\ ~ParseFails(CurrentFile)
    /\ ~IdTaken(Val(ixConn).tasks, CurrentFile)
    /\ TagsAfter(CurrentFile) # NULL /\ PeopleAfter(CurrentFile) # NULL
    /\ ixConn' = Some([Val(ixConn) EXCEPT
            !.tasks = @ \union {RowOf(CurrentFile)},
            !.task_tags = Val(TagsAfter(CurrentFile)),
            !.task_people = Val(PeopleAfter(CurrentFile))])
    /\ ixPos' = ixPos + 1
    /\ UNCHANGED <<vault, schema, db, ixPc, ixCalls, ixAfterFirst, ixOps, notIx>>

\* _index_projects, _index_people, _index_daily_logs, one file: INSERT
IndexOther ==
    /\ ixPc \in {"projects", "people", "daily_logs"} /\ ixPos < Len(LoopFiles(ixPc))
    /\ ~ParseFails(CurrentFile)
    /\ ~IdTaken(Val(ixConn)[ixPc], CurrentFile)
    /\ ixConn' = Some([Val(ixConn) EXCEPT ![ixPc] = @ \union {RowOf(CurrentFile)}])
    /\ ixPos' = ixPos + 1
    /\ UNCHANGED <<vault, schema, db, ixPc, ixCalls, ixAfterFirst, ixOps, notIx>>

\* A loop is through its files (or its folder holds none): on to the next
IndexLoopEnd ==
    /\ InLoop /\ ixPos = Len(LoopFiles(ixPc))
    /\ ixPc' = NextLoop(ixPc)
    /\ ixPos' = 0
    /\ UNCHANGED <<vault, schema, db, ixConn, ixCalls, ixAfterFirst, ixOps, notIx>>

\* frontmatter.load raises: finally db.close(), the inserts so far are rolled back
IndexParseError ==
    /\ InLoop /\ ixPos < Len(LoopFiles(ixPc))
    /\ ParseFails(CurrentFile)
    /\ ixConn' = NULL
    /\ ixPc' = "raised"
    /\ UNCHANGED <<vault, schema, db, ixPos, ixCalls, ixAfterFirst, ixOps, notIx>>

\* An INSERT violates a key (sqlite3.IntegrityError): finally db.close()
IndexIntegrityError ==
    /\ InLoop /\ ixPos < Len(LoopFiles(ixPc))
    /\ ~ParseFails(CurrentFile)
    /\ \/ IdTaken(Val(ixConn)[ixPc], CurrentFile)
       \/ ixPc = "tasks" /\ (TagsAfter(CurrentFile) = NULL \/ PeopleAfter(CurrentFile) = NULL)
    /\ ixConn' = NULL
    /\ ixPc' = "raised"
    /\ UNCHANGED <<vault, schema, db, ixPos, ixCalls, ixAfterFirst, ixOps, notIx>>

\* await conn.commit(); finally db.close(): rebuild_index returns
RebuildCommit ==
    /\ ixPc = "commit"
    /\ db' = Val(ixConn)
    /\ ixConn' = NULL
    /\ ixPc' = "done"
    /\ UNCHANGED <<vault, schema, ixPos, ixCalls, ixAfterFirst, ixOps, notIx>>

IndexNext ==
    \/ \E v \in Vaults, prior \in PriorIndexes, sch \in SchemaChoices :
            VaultSetup(v, prior, sch)
    \/ RebuildWipe
    \/ IndexTask
    \/ IndexOther
    \/ IndexLoopEnd
    \/ IndexParseError
    \/ IndexIntegrityError
    \/ RebuildCommit

SpecIndex == Rest /\ [][IndexNext]_vars

\* ---- create_task_file
MaxCreates == 2

\* now.year-now.month of the clock create_task_file reads
CompletedMonth == "2026-01"

\* "Determine folder based on status"
TaskFolder(status) ==
    CASE status = "completed" -> <<"completed", CompletedMonth>>
      [] status = "someday" -> <<"someday">>
      [] OTHER -> <<"active">>

\* frontmatter_data: the keys create_task_file writes.  completed_at is not
\* one of them, so a reader's post.get("completed_at") is None.
FrontmatterData(task_data) ==
    [Meta(task_data.id, task_data.status, task_data.tags, task_data.people_ids)
        EXCEPT !.updated_at = task_data.updated_at,
               !.completed_at = NULL]

\* The file create_task_file writes: folder / task-{id}.md
TaskFile(task_data) ==
    File("01-tasks", TaskFolder(task_data.status), <<"task-", task_data.id, ".md">>,
         TRUE, FrontmatterData(task_data))

\* The task_data of the calls: a task as the bot holds it
TaskData ==
    { [id |-> id, status |-> s.status, completed_at |-> s.completed_at,
       updated_at |-> 1, tags |-> <<"work">>, people_ids |-> <<>>] :
        id \in {"t1", "t9"},
        s \in { [status |-> "active", completed_at |-> NULL],
                [status |-> "someday", completed_at |-> NULL],
                [status |-> "completed", completed_at |-> Some(2)] } }

Created == SelectSeq(ixOps, LAMBDA c : c.op = "create_task_file")

\* The vault with file f as the entry after the first k
InsertAt(v, k, f) == SubSeq(v, 1, k) \o <<f>> \o SubSeq(v, k + 1, Len(v))

\* create_task_file(task_data): open(file_path, 'w') replaces the file of that
\* path or adds one, at a place of the directory walk the file system chooses;
\* a file of the same task in another folder stays where it is
CreateTaskFile(task_data, k) ==
    /\ ixPc \in {"idle", "done", "raised"}
    /\ Len(Created) < MaxCreates
    /\ LET f == TaskFile(task_data)
           at == { i \in 1..Len(vault) : FilePath(vault[i]) = FilePath(f) }
       IN  IF at # {}
           THEN k = 0 /\ vault' = [i \in 1..Len(vault) |-> IF i \in at THEN f ELSE vault[i]]
           ELSE k <= Len(vault) /\ vault' = InsertAt(vault, k, f)
    /\ ixOps' = Append(ixOps, Call("create_task_file", Some(task_data)))
    /\ UNCHANGED <<schema, db, ixConn, ixPc, ixPos, ixCalls, ixAfterFirst, notIx>>

\* The vaults the task files are created in: empty, or holding one file
StartVaults == { v \in Vaults : Len(v) <= 1 }

TaskFilesNext ==
    \/ \E v \in StartVaults, prior \in PriorIndexes, sch \in SchemaChoices :
            VaultSetup(v, prior, sch)
    \/ \E task_data \in TaskData, k \in 0..MaxCreates : CreateTaskFile(task_data, k)
    \/ RebuildWipe
    \/ IndexTask
    \/ IndexOther
    \/ IndexLoopEnd
    \/ IndexParseError
    \/ IndexIntegrityError
    \/ RebuildCommit

SpecTaskFiles == Rest /\ [][TaskFilesNext]_vars

(***************************************************************************)
(* Calendar <-> task sync.  A timestamp text is [instant, zone]: the        *)
(* instant it denotes, in days, and the way its offset is written.  An      *)
(* event's description is a sequence of lines [lead, marker, rest]: the     *)
(* text before "Task ID:", whether the line holds "Task ID:", and the text  *)
(* after it.                                                                *)
(***************************************************************************)
\* ---- bounds
MaxSyncRuns == 2

MaxSyncTasks == 2

MaxSyncEvents == 2

MaxSyncClock == 12

\* ---- from the source
WindowBack == 7

WindowAhead == 30

Stamp(instant, zone) == Some([instant |-> instant, zone |-> zone])

Linked(file, start, end, event_id, completed_at) ==
    [file EXCEPT !.meta.scheduled_start = start, !.meta.scheduled_end = end,
                 !.meta.calendar_event_id = event_id,
                 !.meta.completed_at = completed_at]

\* The task files of the sync scenarios
SyncTaskPool ==
    << Linked(File("01-tasks", <<"active">>, <<"task-", "t1", ".md">>, TRUE,
                   Meta("t1", "active", <<>>, <<>>)),
              Stamp(12, "+00:00"), Stamp(13, "+00:00"), Some("e1"), NULL),
       Linked(File("01-tasks", <<"completed", "2026-01">>, <<"task-", "t2", ".md">>, TRUE,
                   Meta("t2", "completed", <<>>, <<>>)),
              Stamp(8, "-05:00"), Stamp(9, "-05:00"), Some("e2"), Stamp(9, "")),
       Linked(File("01-tasks", <<"active">>, <<"task-", "t3", ".md">>, TRUE,
                   Meta("t3", "cancelled", <<>>, <<>>)),
              Stamp(13, "+00:00"), Stamp(14, "+00:00"), Some("e3"), NULL),
       File("01-tasks", <<"active">>, <<"task-", "t4", ".md">>, TRUE,
            Meta("t4", "active", <<>>, <<>>)),
       Linked(File("01-tasks", <<"completed", "2026-01">>, <<"task-", "t5", ".md">>, TRUE,
                   Meta("t5", "completed", <<>>, <<>>)),
              Stamp(12, "+00:00"), Stamp(13, "+00:00"), Some("e8"), NULL) >>

Line(lead, marker, rest) == [lead |-> lead, marker |-> marker, rest |-> rest]

Event(id, description, from, to, start, end) ==
    [id |-> id, description |-> description, from |-> from, to |-> to,
     start |-> start, end |-> end, summary |-> <<"", id>>, colorId |-> NULL]

\* The calendar events of the sync scenarios, by start time
SyncEventPool ==
    << Event("e2", <<Line("", TRUE, "t2")>>, 8, 9, Stamp(8, "-05:00"), Stamp(9, "-05:00")),
       Event("e1", <<Line("", FALSE, "notes"), Line("", TRUE, "t1")>>, 12, 13,
             Stamp(12, "Z"), Stamp(13, "Z")),
       Event("e4", <<Line("", TRUE, "t4")>>, 12, 13, Stamp(12, "Z"), Stamp(13, "Z")),
       Event("e5", <<Line("", TRUE, "t4")>>, 12, 13, NULL, NULL),
       Event("e6", <<Line("", TRUE, "zz")>>, 12, 13, Stamp(12, "Z"), Stamp(13, "Z")),
       Event("e7", <<Line("see ", TRUE, "t1")>>, 12, 13, Stamp(12, "Z"), Stamp(13, "Z")),
       Event("e8", <<Line("", FALSE, "lunch")>>, 12, 13, Stamp(12, "Z"), Stamp(13, "Z")),
       Event("e9", <<Line("", TRUE, "t4"), Line("", TRUE, "t1")>>, 12, 13,
             Stamp(12, "Z"), Stamp(13, "Z")),
       Event("e3", <<Line("", TRUE, "t3")>>, 13, 14,
             Stamp(13, "+00:00"), Stamp(14, "+00:00")),
       Event("e1x", <<Line("", TRUE, "t1")>>, 14, 15,
             Stamp(14, "+00:00"), Stamp(15, "+00:00")) >>

\* A scenario: the tasks in T are in the tasks table, those outside Lost have
\* their file in the vault, and the events in E are on the calendar
SyncSetup(T, Lost, E) ==
    /\ syPc = "unset" /\ ixPc = "unset"
    /\ vault' = PickFrom(SyncTaskPool, T \ Lost, Len(SyncTaskPool))
    /\ db' = [EmptyTables EXCEPT
                !.tasks = { RowOf(SyncTaskPool[i]) : i \in T }]
    /\ calendar' = PickFrom(SyncEventPool, E, Len(SyncEventPool))
    /\ syPc' = "idle"
    /\ UNCHANGED <<calendar_sync, syNow, syEvents, syTasks, syCount, syLog,
                   syResults, syStart, syTrace, notSy>>

\* events().list(timeMin, timeMax, orderBy = startTime): the events that end
\* after timeMin and start before timeMax
GetEvents(time_min, time_max) ==
    SelectSeq(calendar, LAMBDA e : e.to > time_min /\ e.from < time_max)

\* SELECT last_sync_at FROM calendar_sync WHERE id = 1, fetchone, and
\* datetime.fromisoformat(row[0])
GetLastSyncTime ==
    LET rows == { r \in calendar_sync : r.id = 1 } IN
    IF rows = {} THEN NULL ELSE Some((CHOOSE r \in rows : TRUE).last_sync_at)

\* A plain INSERT: the row is added next to those the table holds
InsertBeside(table, row) == table \union {row}

\* INSERT OR REPLACE: the row takes the place of the row with its id
InsertOrReplace(table, row) == { r \in table : r.id # row.id } \union {row}

\* update_sync_time(sync_time, sync_token)
UpdateSyncTime(sync_time, sync_token) ==
    InsertOrReplace(calendar_sync,
        [id |-> 1, last_sync_at |-> sync_time, sync_token |-> sync_token])

\* time_min = last_sync or (datetime.now() - timedelta(days=7))
TimeMin(now) ==
    IF GetLastSyncTime = NULL THEN now - WindowBack ELSE Val(GetLastSyncTime)

\* time_max = datetime.now() + timedelta(days=30)
TimeMax(now) == now + WindowAhead

\* What a run finds when it starts
StartOf(now, events) ==
    Some([now |-> now, tasks |-> db.tasks, files |-> vault, cursor |-> GetLastSyncTime,
          time_min |-> TimeMin(now), time_max |-> TimeMax(now), events |-> events])

Step(op, id, ok) == [op |-> op, id |-> id, ok |-> ok]

\* run_bidirectional_sync goes on after sync_calendar_to_tasks raised
AfterC2TSwallowed(raised) == "c2t_done"

\* Where run_bidirectional_sync is when sync_calendar_to_tasks has ended: the
\* exception of the pass leaves run_bidirectional_sync too
AfterC2T(raised) == IF raised THEN "raised" ELSE "c2t_done"

\* run_bidirectional_sync starts: sync_calendar_to_tasks reads the cursor and
\* fetches the events of the window
C2TBegin(d) ==
    /\ syPc \in {"idle", "returned", "raised"}
    /\ Len(syResults) < MaxSyncRuns
    /\ syNow + d <= MaxSyncClock
    /\ syNow' = syNow + d
    /\ syEvents' = GetEvents(TimeMin(syNow + d), TimeMax(syNow + d))
    /\ syStart' = StartOf(syNow + d, GetEvents(TimeMin(syNow + d), TimeMax(syNow + d)))
    /\ syTrace' = <<>>
    /\ syCount' = NoCount
    /\ syLog' = NoCalls
    /\ syPc' = "c2t"
    /\ UNCHANGED <<calendar, calendar_sync, syTasks, syResults, vault, db, notSy>>

\* A pass that stores the time of its failure as the sync time
CursorMoved(now) == UpdateSyncTime(now, NULL)

\* except Exception: ... raise: update_sync_time, the last statement of the try
\* block, is not reached
CursorKept(now) == calendar_sync

\* calendar.get_events raises (the request fails): the pass re-raises
C2TQueryFails ==
    /\ syPc \in {"idle", "returned", "raised"}
    /\ Len(syResults) < MaxSyncRuns
    /\ syStart' = StartOf(syNow, <<>>)
    /\ syTrace' = <<Step("raise", "get_events", FALSE)>>
    /\ syEvents' = <<>>
    /\ syCount' = NoCount
    /\ syLog' = NoCalls
    /\ syPc' = AfterC2T(TRUE)
    /\ syResults' = Append(syResults, NULL)
    /\ calendar_sync' = CursorKept(syNow)
    /\ UNCHANGED <<calendar, syNow, syTasks, vault, db, notSy>>

\* 'Task ID:' in description
HasMarker(description) ==
    \E i \in 1..Len(description) : description[i].marker

\* The text after "Task ID:" of the last line that starts with it, or NULL
ExtractLastTaskId(description) ==
    LET starts == { i \in 1..Len(description) :
                       description[i].marker /\ description[i].lead = "" }
    IN  IF starts = {} THEN NULL
        ELSE Some(description[CHOOSE i \in starts : \A j \in starts : i >= j].rest)

\* _extract_task_id: the text after "Task ID:" of the first line that starts
\* with it, or NULL
ExtractTaskId(description) ==
    LET starts == { i \in 1..Len(description) :
                       description[i].marker /\ description[i].lead = "" }
    IN  IF starts = {} THEN NULL
        ELSE Some(description[CHOOSE i \in starts : \A j \in starts : i <= j].rest)

\* start_dt.isoformat() of fromisoformat(text.replace('Z', '+00:00'))
IsoOfReplaced(text) ==
    Some([instant |-> Val(text).instant,
          zone |-> IF Val(text).zone = "Z" THEN "+00:00" ELSE Val(text).zone])

\* The updates dictionary for a task row and an event
UpdatesFor(task, event) ==
    [scheduled_start |->
        IF task.scheduled_start # IsoOfReplaced(event.start)
        THEN Some(IsoOfReplaced(event.start)) ELSE NULL,
     scheduled_end |->
        IF task.scheduled_end # IsoOfReplaced(event.end)
        THEN Some(IsoOfReplaced(event.end)) ELSE NULL,
     calendar_event_id |->
        IF task.calendar_event_id # Some(event.id)
        THEN Some(Some(event.id)) ELSE NULL]

NeedsUpdate(updates) ==
    \/ updates.scheduled_start # NULL
    \/ updates.scheduled_end # NULL
    \/ updates.calendar_event_id # NULL

\* A record with the updated keys overwritten
Apply(rec, updates) ==
    [rec EXCEPT
       !.scheduled_start =
           IF updates.scheduled_start = NULL THEN @ ELSE Val(updates.scheduled_start),
       !.scheduled_end =
           IF updates.scheduled_end = NULL THEN @ ELSE Val(updates.scheduled_end),
       !.calendar_event_id =
           IF updates.calendar_event_id = NULL THEN @
           ELSE Val(updates.calendar_event_id)]

\* _find_task_file: the first task-<id>.md under active, completed, someday
FindTaskFile(task_id) ==
    LET in(folder) == { i \in 1..Len(vault) :
                          /\ vault[i].top = "01-tasks"
                          /\ vault[i].sub # <<>> /\ vault[i].sub[1] = folder
                          /\ vault[i].name = <<"task-", task_id, ".md">> }
        first(S) == CHOOSE i \in S : \A j \in S : i <= j
    IN  IF in("active") # {} THEN Some(first(in("active")))
        ELSE IF in("completed") # {} THEN Some(first(in("completed")))
        ELSE IF in("someday") # {} THEN Some(first(in("someday")))
        ELSE NULL

\* update_task_file: the header's keys and updated_at rewritten
UpdateTaskFile(i, updates, now) ==
    [vault EXCEPT ![i].meta = [Apply(@, updates) EXCEPT !.updated_at = now]]

\* An UPDATE that matches no row
UpdateNoRow(task_id, updates) == db

\* _update_task_in_db: UPDATE tasks SET ... WHERE id = ?
UpdateTaskInDb(task_id, updates) ==
    [db EXCEPT !.tasks =
        { IF r.id = task_id THEN Apply(r, updates) ELSE r : r \in @ }]

\* The rows of table tasks that _get_task finds for an event, none when the
\* event is skipped for having no marker line, no id or no dateTime
EventTaskIn(tasks, event) ==
    IF ~HasMarker(event.description) THEN {}
    ELSE IF ExtractTaskId(event.description) = NULL THEN {}
    ELSE IF Val(ExtractTaskId(event.description)) = "" THEN {}
    ELSE IF event.start = NULL \/ event.end = NULL THEN {}
    ELSE { r \in tasks : r.id = Val(ExtractTaskId(event.description)) }

EventTask(event) == EventTaskIn(db.tasks, event)

\* The loop body for an event that leads to no write
C2TSkip ==
    /\ syPc = "c2t" /\ syEvents # <<>>
    /\ \/ EventTask(Head(syEvents)) = {}
       \/ \E task \in EventTask(Head(syEvents)) :
             ~NeedsUpdate(UpdatesFor(task, Head(syEvents)))
    /\ syEvents' = Tail(syEvents)
    /\ UNCHANGED <<calendar, calendar_sync, syPc, syNow, syTasks, syCount, syLog,
                   syResults, syStart, syTrace, vault, db, notSy>>

\* The loop body for an event that differs from its task: file, then row
C2TUpdate ==
    /\ syPc = "c2t" /\ syEvents # <<>>
    /\ \E task \in EventTask(Head(syEvents)) :
         LET updates == UpdatesFor(task, Head(syEvents))
             found == FindTaskFile(task.id)
         IN  /\ NeedsUpdate(updates)
             /\ found # NULL
             /\ vault' = UpdateTaskFile(Val(found), updates, syNow)
             /\ db' = UpdateTaskInDb(task.id, updates)
             /\ syTrace' = Append(syTrace, Step("task_write", task.id, TRUE))
    /\ syEvents' = Tail(syEvents)
    /\ syCount' = [syCount EXCEPT !.calendar_to_tasks = @ + 1]
    /\ syLog' = [syLog EXCEPT !.task_write = @ + 1]
    /\ UNCHANGED <<calendar, calendar_sync, syPc, syNow, syTasks, syResults,
                   syStart, notSy>>

\* update_task_file raises FileNotFoundError: the pass re-raises, and so does
\* run_bidirectional_sync
C2TFileNotFound ==
    /\ syPc = "c2t" /\ syEvents # <<>>
    /\ \E task \in EventTask(Head(syEvents)) :
         /\ NeedsUpdate(UpdatesFor(task, Head(syEvents)))
         /\ FindTaskFile(task.id) = NULL
         /\ syTrace' = Append(syTrace, Step("raise", task.id, FALSE))
    /\ syPc' = AfterC2T(TRUE)
    /\ syResults' = Append(syResults, NULL)
    /\ calendar_sync' = CursorKept(syNow)
    /\ UNCHANGED <<calendar, syNow, syEvents, syTasks, syCount,
                   syLog, syStart, vault, db, notSy>>

\* update_task_file has written the file and _update_task_in_db raises (the
\* database is locked, the disk fails): the pass re-raises
C2TDbWriteFails ==
    /\ syPc = "c2t" /\ syEvents # <<>>
    /\ \E task \in EventTask(Head(syEvents)) :
         LET updates == UpdatesFor(task, Head(syEvents))
             found == FindTaskFile(task.id)
         IN  /\ NeedsUpdate(updates)
             /\ found # NULL
             /\ vault' = UpdateTaskFile(Val(found), updates, syNow)
             /\ syTrace' = Append(syTrace, Step("raise", task.id, FALSE))
    /\ syPc' = AfterC2T(TRUE)
    /\ syResults' = Append(syResults, NULL)
    /\ calendar_sync' = CursorKept(syNow)
    /\ UNCHANGED <<calendar, syNow, syEvents, syTasks, syCount,
                   syLog, syStart, db, notSy>>

\* update_sync_time(datetime.now(), sync_token); the pass returns its count
C2TFinish(d) ==
    /\ syPc = "c2t" /\ syEvents = <<>>
    /\ syNow + d <= MaxSyncClock
    /\ syNow' = syNow + d
    /\ calendar_sync' = UpdateSyncTime(syNow + d, NULL)
    /\ syTrace' = Append(syTrace, Step("cursor", "calendar_sync", TRUE))
    /\ syPc' = AfterC2T(FALSE)
    /\ UNCHANGED <<calendar, syEvents, syTasks, syCount, syLog, syResults,
                   syStart, vault, db, notSy>>

\* sync_tasks_to_calendar: SELECT * FROM tasks WHERE calendar_event_id IS NOT NULL
T2CBegin ==
    /\ syPc = "c2t_done"
    /\ syTasks' = { r \in db.tasks : r.calendar_event_id # NULL }
    /\ syPc' = "t2c"
    /\ UNCHANGED <<calendar, calendar_sync, syNow, syEvents, syCount, syLog,
                   syResults, syStart, syTrace, vault, db, notSy>>

OnCalendar(event_id) == \E i \in 1..Len(calendar) : calendar[i].id = event_id

\* The branch that also marks the event of a completed task without completed_at
CalendarCallByStatus(task) ==
    IF task.status = "completed" THEN "update_event"
    ELSE IF task.status = "cancelled" THEN "delete_event"
    ELSE "none"

\* The branch of the loop body of sync_tasks_to_calendar a task takes
CalendarCallFor(task) ==
    IF task.status = "completed" /\ task.completed_at # NULL THEN "update_event"
    ELSE IF task.status = "cancelled" THEN "delete_event"
    ELSE "none"

\* update_event(event_id, {summary, colorId}) of the completed task
MarkCompleted(task) ==
    [i \in 1..Len(calendar) |->
        IF calendar[i].id = Val(task.calendar_event_id)
        THEN [calendar[i] EXCEPT !.summary = <<"done", task.title>>,
                                 !.colorId = Some("10")]
        ELSE calendar[i]]

\* delete_event(event_id)
WithoutEvent(event_id) == SelectSeq(calendar, LAMBDA e : e.id # event_id)

\* The loop body for a completed task with completed_at
T2CCompleted ==
    /\ syPc = "t2c"
    /\ \E task \in syTasks :
         /\ CalendarCallFor(task) = "update_event"
         /\ OnCalendar(Val(task.calendar_event_id))
         /\ calendar' = MarkCompleted(task)
         /\ syTasks' = syTasks \ {task}
         /\ syTrace' = Append(syTrace,
                Step("update_event", Val(task.calendar_event_id), TRUE))
    /\ syCount' = [syCount EXCEPT !.tasks_to_calendar = @ + 1]
    /\ syLog' = [syLog EXCEPT !.update_event = @ + 1]
    /\ UNCHANGED <<calendar_sync, syPc, syNow, syEvents, syResults, syStart,
                   vault, db, notSy>>

\* The loop body for a cancelled task
T2CCancelled ==
    /\ syPc = "t2c"
    /\ \E task \in syTasks :
         /\ CalendarCallFor(task) = "delete_event"
         /\ OnCalendar(Val(task.calendar_event_id))
         /\ calendar' = WithoutEvent(Val(task.calendar_event_id))
         /\ syTasks' = syTasks \ {task}
         /\ syTrace' = Append(syTrace,
                Step("delete_event", Val(task.calendar_event_id), TRUE))
    /\ syCount' = [syCount EXCEPT !.tasks_to_calendar = @ + 1]
    /\ syLog' = [syLog EXCEPT !.delete_event = @ + 1]
    /\ UNCHANGED <<calendar_sync, syPc, syNow, syEvents, syResults, syStart,
                   vault, db, notSy>>

\* The count after a calendar call that raised, were it counted all the same
CountFailedToo(count) == [count EXCEPT !.tasks_to_calendar = @ + 1]

\* The count after a calendar call that raised: updates_count += 1 is skipped
CountAfterFailure(count) == count

\* The calendar call raises (the event is not on the calendar, the request
\* fails); the exception is caught and logged, the task is not counted
T2CCallFails ==
    /\ syPc = "t2c"
    /\ \E task \in syTasks :
         /\ CalendarCallFor(task) # "none"
         /\ syLog' = [syLog EXCEPT ![CalendarCallFor(task)] = @ + 1]
         /\ syTrace' = Append(syTrace,
                Step(CalendarCallFor(task), Val(task.calendar_event_id), FALSE))
         /\ syTasks' = syTasks \ {task}
    /\ syCount' = CountAfterFailure(syCount)
    /\ UNCHANGED <<calendar, calendar_sync, syPc, syNow, syEvents,
                   syResults, syStart, vault, db, notSy>>

\* The loop body for a task of any other status: no action
T2COther ==
    /\ syPc = "t2c"
    /\ \E task \in syTasks :
         /\ CalendarCallFor(task) = "none"
         /\ syTasks' = syTasks \ {task}
    /\ UNCHANGED <<calendar, calendar_sync, syPc, syNow, syEvents, syCount, syLog,
                   syResults, syStart, syTrace, vault, db, notSy>>

\* run_bidirectional_sync returns the two counts
SyncReturn ==
    /\ syPc = "t2c" /\ syTasks = {}
    /\ syPc' = "returned"
    /\ syResults' = Append(syResults, Some([count |-> syCount, calls |-> syLog]))
    /\ UNCHANGED <<calendar, calendar_sync, syNow, syEvents, syTasks, syCount,
                   syLog, syStart, syTrace, vault, db, notSy>>

SyncScenarios ==
    { <<T, Lost, E>> \in
        SmallSubsets(Len(SyncTaskPool), MaxSyncTasks)
          \X SmallSubsets(Len(SyncTaskPool), 1)
          \X SmallSubsets(Len(SyncEventPool), MaxSyncEvents) : Lost \subseteq T }

SyncNext ==
    \/ \E sc \in SyncScenarios : SyncSetup(sc[1], sc[2], sc[3])
    \/ \E d \in {0, 1} : C2TBegin(d)
    \/ C2TQueryFails
    \/ C2TSkip
    \/ C2TUpdate
    \/ C2TFileNotFound
    \/ C2TDbWriteFails
    \/ \E d \in {0, 1} : C2TFinish(d)
    \/ T2CBegin
    \/ T2CCompleted
    \/ T2CCancelled
    \/ T2CCallFails
    \/ T2COther
    \/ SyncReturn

(***************************************************************************)
(* Git sync of the vault.  A branch is the set of its commits; git is the  *)
(* program the bot runs in a subprocess, and a git command that exits      *)
(* with a non-zero status raises CalledProcessError in _run_git_command.   *)
(***************************************************************************)
\* ---- bounds
MaxGitSyncs == 2

MaxCommits == 3

\* The bot or the user changes a file of the vault
VaultEdit ==
    /\ ~gsDirty
    /\ gsDirty' = TRUE
    /\ UNCHANGED <<gsPc, gsLocal, gsRemote, gsNextCommit, gsResult, gsLog, gsRuns, notGs>>

\* Another clone pushes a commit to the remote
RemoteCommit ==
    /\ gsNextCommit <= MaxCommits
    /\ gsRemote' = gsRemote \union {gsNextCommit}
    /\ gsNextCommit' = gsNextCommit + 1
    /\ UNCHANGED <<gsPc, gsDirty, gsLocal, gsResult, gsLog, gsRuns, notGs>>

\* sync is called: the result dictionary is made
GitSyncBegin ==
    /\ gsPc \in {"idle", "returned"}
    /\ gsRuns < MaxGitSyncs
    /\ gsRuns' = gsRuns + 1
    /\ gsResult' = NewResult
    /\ gsLog' = NoLog
    /\ gsPc' = "commit"
    /\ UNCHANGED <<gsDirty, gsLocal, gsRemote, gsNextCommit, notGs>>

\* if await self.check_for_changes(): commit_changes("Auto-sync before pull")
\* adds, finds changes and commits
GitCommit ==
    /\ gsPc = "commit" /\ gsDirty
    /\ gsNextCommit <= MaxCommits
    /\ gsLocal' = gsLocal \union {gsNextCommit}
    /\ gsNextCommit' = gsNextCommit + 1
    /\ gsDirty' = FALSE
    /\ gsResult' = [gsResult EXCEPT !.committed = TRUE]
    /\ gsLog' = [gsLog EXCEPT !.commit = Some(gsNextCommit)]
    /\ gsPc' = "pull"
    /\ UNCHANGED <<gsRemote, gsRuns, notGs>>

\* A git command of check_for_changes or commit_changes fails: the exception
\* is logged, the value is False and nothing is committed
GitCommitFails ==
    /\ gsPc = "commit" /\ gsDirty
    /\ gsLog' = [gsLog EXCEPT !.commit_failed = TRUE]
    /\ gsPc' = "pull"
    /\ UNCHANGED <<gsDirty, gsLocal, gsRemote, gsNextCommit, gsResult, gsRuns, notGs>>

\* check_for_changes is False: nothing to commit
GitNothingToCommit ==
    /\ gsPc = "commit" /\ ~gsDirty
    /\ gsPc' = "pull"
    /\ UNCHANGED <<gsDirty, gsLocal, gsRemote, gsNextCommit, gsResult, gsLog, gsRuns,
                   notGs>>

\* local_rev.strip() == remote_rev.strip() after the fetch
SameRevision == gsLocal = gsRemote

\* The place of sync after pull_changes: the conflict branch, then the push
AfterPull(status) ==
    IF status = "conflict" THEN "resolve" ELSE "push"

\* pull_changes returns {"status": "up_to_date"}
PullUpToDate ==
    /\ gsPc = "pull" /\ SameRevision
    /\ gsLog' = [gsLog EXCEPT !.pull_status = Some("up_to_date")]
    /\ gsPc' = AfterPull("up_to_date")
    /\ UNCHANGED <<gsDirty, gsLocal, gsRemote, gsNextCommit, gsResult, gsRuns, notGs>>

\* git pull merges the remote branch; no unmerged path: {"status": "success"}
PullSuccess ==
    /\ gsPc = "pull" /\ ~SameRevision
    /\ gsLocal' = gsLocal \union gsRemote
    /\ gsResult' = [gsResult EXCEPT !.pulled = TRUE]
    /\ gsLog' = [gsLog EXCEPT !.pull_status = Some("success")]
    /\ gsPc' = AfterPull("success")
    /\ UNCHANGED <<gsDirty, gsRemote, gsNextCommit, gsRuns, notGs>>

\* git pull returns and _check_for_conflicts lists unmerged paths:
\* {"status": "conflict", "conflicts": [...]}
PullConflict ==
    /\ gsPc = "pull" /\ ~SameRevision
    /\ gsRemote \ gsLocal # {}
    /\ gsLocal' = gsLocal \union gsRemote
    /\ gsDirty' = TRUE
    /\ gsResult' = [gsResult EXCEPT !.conflicts = {"unmerged.md"}]
    /\ gsLog' = [gsLog EXCEPT !.pull_status = Some("conflict")]
    /\ gsPc' = AfterPull("conflict")
    /\ UNCHANGED <<gsRemote, gsNextCommit, gsRuns, notGs>>

\* fetch, rev-parse or pull exits with an error: {"status": "error"}
PullError ==
    /\ gsPc = "pull"
    /\ gsLog' = [gsLog EXCEPT !.pull_status = Some("error")]
    /\ gsPc' = AfterPull("error")
    /\ UNCHANGED <<gsDirty, gsLocal, gsRemote, gsNextCommit, gsResult, gsRuns, notGs>>

\* _auto_resolve_conflicts checks out "ours" and stages every file, and
\* commit_changes("Auto-resolved conflicts") commits the resolution
ResolveConflicts ==
    /\ gsPc = "resolve"
    /\ gsDirty' = FALSE
    /\ gsResult' = [gsResult EXCEPT !.conflict_resolved = TRUE]
    /\ gsLog' = [gsLog EXCEPT !.resolved = Some(TRUE)]
    /\ gsPc' = "push"
    /\ UNCHANGED <<gsLocal, gsRemote, gsNextCommit, gsRuns, notGs>>

\* A git command of _auto_resolve_conflicts fails: resolved is False
ResolveFails ==
    /\ gsPc = "resolve"
    /\ gsLog' = [gsLog EXCEPT !.resolved = Some(FALSE)]
    /\ gsPc' = "push"
    /\ UNCHANGED <<gsDirty, gsLocal, gsRemote, gsNextCommit, gsResult, gsRuns, notGs>>

\* if result["pulled"] and not result["conflicts"]
PushWanted == gsResult.pulled /\ gsResult.conflicts = {}

\* push_changes: git push takes the remote branch to the local one
PushChanges ==
    /\ gsPc = "push" /\ PushWanted
    /\ gsRemote \subseteq gsLocal
    /\ gsRemote' = gsLocal
    /\ gsResult' = [gsResult EXCEPT !.pushed = TRUE]
    /\ gsPc' = "rebuild"
    /\ UNCHANGED <<gsDirty, gsLocal, gsNextCommit, gsLog, gsRuns, notGs>>

\* git push exits with an error (rejected, no network): pushed is False
PushFails ==
    /\ gsPc = "push" /\ PushWanted
    /\ gsLog' = [gsLog EXCEPT !.push_failed = TRUE]
    /\ gsPc' = "rebuild"
    /\ UNCHANGED <<gsDirty, gsLocal, gsRemote, gsNextCommit, gsResult, gsRuns, notGs>>

\* The condition of the push is false: no push
PushSkipped ==
    /\ gsPc = "push" /\ ~PushWanted
    /\ gsPc' = "rebuild"
    /\ UNCHANGED <<gsDirty, gsLocal, gsRemote, gsNextCommit, gsResult, gsLog, gsRuns,
                   notGs>>

\* if result["pulled"]: rebuild_index (followed in the index model), which
\* returns, or raises and is noted in result["errors"]; return result
GitSyncReturn(ok) ==
    /\ gsPc = "rebuild"
    /\ (~ok) => gsResult.pulled
    /\ gsResult' = [gsResult EXCEPT !.errors = IF ok THEN @ ELSE @ + 1]
    /\ gsLog' = [gsLog EXCEPT !.rebuilt = gsResult.pulled]
    /\ gsPc' = "returned"
    /\ UNCHANGED <<gsDirty, gsLocal, gsRemote, gsNextCommit, gsRuns, notGs>>

GitNext ==
    \/ VaultEdit
    \/ RemoteCommit
    \/ GitSyncBegin
    \/ GitCommit
    \/ GitCommitFails
    \/ GitNothingToCommit
    \/ PullUpToDate
    \/ PullSuccess
    \/ PullConflict
    \/ PullError
    \/ ResolveConflicts
    \/ ResolveFails
    \/ PushChanges
    \/ PushFails
    \/ PushSkipped
    \/ \E ok \in BOOLEAN : GitSyncReturn(ok)

SpecGit == Rest /\ [][GitNext]_vars

SpecSync == Rest /\ [][SyncNext]_vars

SpecSlots == Rest /\ [][SlotsNext]_vars

\* The coroutine, once called, is run to its end
SpecSlotsFair == SpecSlots /\ WF_vars(SlotsNext)

SpecNotify == Rest /\ [][NotifyNext]_vars

SpecEscalate == Rest /\ [][EscalateNext]_vars

SpecInterleaved == Rest /\ [][InterleavedNext]_vars

SpecForeign == Rest /\ [][ForeignNext]_vars

(***************************************************************************)
(* Claims about the slot finder.                                           *)
(***************************************************************************)

\* C1: no slot returned by find_free_slots overlaps a busy interval of the
\* query: for each slot s and busy b, NOT (s.start < b.end AND s.end > b.start).
C1_NoOverlap ==
    sfPc # "idle" =>
        \A i \in 1..Len(free_slots) : \A k \in 1..Len(sfIn.busy_periods) :
            ~(free_slots[i].start < sfIn.busy_periods[k][2]
              /\ free_slots[i].end > sfIn.busy_periods[k][1])

\* A call has returned a slot that it reached by jumping past a busy period
C1_Witness ==
    /\ sfPc = "done"
    /\ \E i \in 1..Len(free_slots) : free_slots[i].after_jump
    /\ Len(sfIn.busy_periods) = 2

\* C2: every returned slot starts at an hour >= work_hours_start, ends no later
\* than work_hours_end on the calendar day of its start, and starts on a weekday
\* that is not Saturday or Sunday.
C2_WorkHoursContainment ==
    sfPc # "idle" =>
        \A i \in 1..Len(free_slots) :
            /\ HourOf(free_slots[i].start) >= sfIn.work_hours_start
            /\ DayOf(free_slots[i].end) = DayOf(free_slots[i].start)
            /\ free_slots[i].end - ReplaceHour(free_slots[i].start, 0)
                  <= sfIn.work_hours_end * 60
            /\ WeekdayOf(free_slots[i].start) < 5

(***************************************************************************)
(* Claims about the notification escalation.                               *)
(***************************************************************************)
NotificationIds == 0..(MaxNotifications + 1)

C8_Pending(id) ==
    /\ id \in 1..Len(notifications)
    /\ notifications[id].sent_at # NULL
    /\ notifications[id].acknowledged_at = NULL

\* C8: for a sent, unacknowledged notification get_escalation_priority is default
\* for elapsed minutes in [0, 5), high in [5, 10) and urgent from 10 on; for a
\* notification that is missing, not sent or acknowledged it is default.
C8_EscalationPriority ==
    \A id \in NotificationIds :
        LET e == ntNow - Val(notifications[id].sent_at) IN
        /\ ~C8_Pending(id) => GetEscalationPriority(id) = "default"
        /\ C8_Pending(id) =>
            /\ (0 <= e /\ e < 5 * TicksPerMinute) => GetEscalationPriority(id) = "default"
            /\ (5 * TicksPerMinute <= e /\ e < 10 * TicksPerMinute)
                   => GetEscalationPriority(id) = "high"
            /\ 10 * TicksPerMinute <= e => GetEscalationPriority(id) = "urgent"

\* A pending notification has gone from default through high to urgent, beside
\* an acknowledged one
C8_Witness ==
    \E id, other \in 1..Len(notifications) :
        /\ C8_Pending(id)
        /\ ntNow - Val(notifications[id].sent_at) >= 10 * TicksPerMinute
        /\ GetEscalationPriority(id) = "urgent"
        /\ notifications[other].acknowledged_at # NULL
        /\ notifications[other].sent_at # NULL

\* C9: a notification tracked with scheduled_for m minutes in the past and then
\* passed to mark_as_sent needs escalation when m >= 5, and its priority is
\* default for m < 5, high for 5 <= m < 10 and urgent for m >= 10.
C9_EscalationFromScheduledFor ==
    \A id \in 1..Len(notifications) :
        LET n == notifications[id]
            m == n.tracked_at - n.scheduled_for
        IN  (n.sent_at = Some(ntNow) /\ n.tracked_at = ntNow /\ n.acknowledged_at = NULL) =>
                /\ m >= 5 * TicksPerMinute => NeedsEscalation(id)
                /\ m < 5 * TicksPerMinute => GetEscalationPriority(id) = "default"
                /\ (5 * TicksPerMinute <= m /\ m < 10 * TicksPerMinute)
                       => GetEscalationPriority(id) = "high"
                /\ m >= 10 * TicksPerMinute => GetEscalationPriority(id) = "urgent"

(***************************************************************************)
(* Claims about the conversation sessions.                                 *)
(***************************************************************************)

\* C6: under serialized calls, for each (user_id, context_type) at most one of
\* the sessions get_or_create_session has returned is live (now < expires_at).
C6_SessionExclusivity ==
    \A u \in Users, c \in ContextTypes :
        Cardinality({ r \in bot_sessions :
                        /\ r.session_id \in csReturned
                        /\ r.telegram_user_id = u /\ r.context_type = c
                        /\ csNow < r.expires_at }) <= 1

\* Three sessions were returned for one key, the first ended by end_session, the
\* second expired by time, the third live
C6_Witness ==
    \E a, b, l \in bot_sessions :
        /\ {a.session_id, b.session_id, l.session_id} \subseteq csReturned
        /\ a.context_type = l.context_type /\ b.context_type = l.context_type
        /\ a.expires_at < a.created_at + TimeoutMinutes
        /\ b.session_id # a.session_id
        /\ b.expires_at = b.created_at + TimeoutMinutes /\ csNow >= b.expires_at
        /\ csNow < l.expires_at
        /\ a.message_count > 0

\* C7: each existing session's message_count equals the number of
\* conversation_messages rows whose session_id references it.
C7_MessageCount ==
    \A r \in bot_sessions :
        r.message_count =
            Cardinality({ m \in conversation_messages : m.session_id = r.session_id })

\* A session holds a message that was added after it expired, while another
\* caller's add_message for the same session is under way
C7_Witness ==
    \E r \in bot_sessions :
        /\ r.message_count = 1
        /\ \E m \in conversation_messages :
              m.session_id = r.session_id /\ m.created_at >= r.expires_at
        /\ csTxn # NULL
        /\ \E m \in Val(csTxn).messages \ conversation_messages :
              m.session_id = r.session_id

\* A rebuild_index call has ended, by returning or by raising
RebuildEnded == ixCalls >= 1 /\ ixPc \in {"done", "raised"}

\* C4: when rebuild_index is called twice in a row on an unchanged vault and
\* the first call returned, the second call returns too and leaves every table,
\* task_tags and task_people included, as the first call left it.
C4_IdempotentRebuild ==
    (/\ ixCalls = 2 /\ RebuildEnded
     /\ Val(ixAfterFirst).ended = "done")
        => (ixPc = "done" /\ db = Val(ixAfterFirst).tables)

\* The rows of a table and the files its loop discovers are in one-to-one
\* correspondence by file path, and each row's file is in the vault
RowsMatchFiles(table) ==
    LET found == LoopFiles(table) IN
    /\ \A r \in db[table] :
          Cardinality({i \in 1..Len(found) : FilePath(found[i]) = r.file_path}) = 1
    /\ \A i \in 1..Len(found) :
          Cardinality({r \in db[table] : r.file_path = FilePath(found[i])}) = 1

C10_MalformedFileIsolated ==
    (/\ RebuildEnded
     /\ Len(vault) = 2
     /\ \A i \in 1..2 : IsTaskFile(vault[i])
     /\ \E i, j \in 1..2 : ~vault[i].parses /\ vault[j].parses)
        => /\ ixPc = "done"
           /\ \A i \in 1..2 :
                 vault[i].parses => \E r \in db.tasks : r.file_path = FilePath(vault[i])

\* C3: when run_bidirectional_sync has returned twice with nothing else
\* touching the calendar, the vault or the tasks table, the second run returned
\* calendar_to_tasks = 0 and tasks_to_calendar = 0 and issued no update_event,
\* no delete_event and no task write.
C3_SecondSyncDoesNothing ==
    (Len(syResults) = 2 /\ syResults[1] # NULL /\ syResults[2] # NULL)
        => (Val(syResults[2]).count = NoCount /\ Val(syResults[2]).calls = NoCalls)

(***************************************************************************)
(* Claims about the calendar <-> task sync.                                *)
(***************************************************************************)

\* The Calendar-to-Task pass of the current run has returned
C2TCompleted == syPc \in {"c2t_done", "t2c", "returned"}

\* Two timestamp texts denote the same time with the same offset ("Z" is +00:00)
SameTime(a, b) ==
    /\ a # NULL /\ b # NULL
    /\ Val(a).instant = Val(b).instant
    /\ (IF Val(a).zone = "Z" THEN "+00:00" ELSE Val(a).zone)
         = (IF Val(b).zone = "Z" THEN "+00:00" ELSE Val(b).zone)

\* A record of a task (row or header) holds the event's start, end and id
HoldsEvent(rec, event) ==
    /\ SameTime(rec.scheduled_start, event.start)
    /\ SameTime(rec.scheduled_end, event.end)
    /\ rec.calendar_event_id = Some(event.id)

\* The positions, in the list the pass fetched, of the timed events that carry
\* the marker of the task
EventsNaming(task_id) ==
    { i \in 1..Len(Val(syStart).events) :
        \E r \in EventTaskIn(Val(syStart).tasks, Val(syStart).events[i]) :
            r.id = task_id }

\* The tasks that, when the pass started, differed from an event naming them
DifferingTasks ==
    { r.id : r \in { t \in Val(syStart).tasks :
        \E i \in EventsNaming(t.id) : ~HoldsEvent(t, Val(syStart).events[i]) } }

\* The row and the document of the task both hold the event
BothHoldEvent(task_id, event) ==
    /\ \A r \in db.tasks : r.id = task_id => HoldsEvent(r, event)
    /\ \A k \in 1..Len(vault) : vault[k].meta.id = task_id => HoldsEvent(vault[k].meta, event)

\* C11 as stated: after a completed Calendar-to-Task pass, for every timed event
\* of the window that names an existing task and differed from it, the task
\* holds the event's start, end and id in the row and in the document, and the
\* returned count is the number of tasks so updated.
C11_EveryDifferingEventWritten ==
    C2TCompleted =>
        /\ \A t \in Val(syStart).tasks : \A i \in EventsNaming(t.id) :
              ~HoldsEvent(t, Val(syStart).events[i])
                  => BothHoldEvent(t.id, Val(syStart).events[i])
        /\ syCount.calendar_to_tasks = Cardinality(DifferingTasks)

\* C11, amended: after a completed Calendar-to-Task pass every task named by
\* timed events of the window holds, in the row and in the document, the start,
\* end and id of the last of them, and when no task is named by two events the
\* returned count is the number of tasks that differed from their event.
C11_LastEventWritten ==
    C2TCompleted =>
        /\ \A t \in Val(syStart).tasks :
              EventsNaming(t.id) # {} =>
                  BothHoldEvent(t.id, Val(syStart).events[
                      CHOOSE i \in EventsNaming(t.id) :
                          \A j \in EventsNaming(t.id) : j <= i])
        /\ (\A t \in Val(syStart).tasks : Cardinality(EventsNaming(t.id)) <= 1)
              => syCount.calendar_to_tasks = Cardinality(DifferingTasks)

\* A completed pass has linked a task that had no event to its event, written
\* with "Z", and another pass has rewritten a task named by two events twice
C11_Witness ==
    /\ C2TCompleted
    /\ \/ /\ syCount.calendar_to_tasks = 1
          /\ \E t \in Val(syStart).tasks :
                /\ t.calendar_event_id = NULL
                /\ \E r \in db.tasks : r.id = t.id /\ r.calendar_event_id # NULL
                /\ \E i \in EventsNaming(t.id) : Val(Val(syStart).events[i].start).zone = "Z"
       \/ /\ syCount.calendar_to_tasks = 2
          /\ \E t \in Val(syStart).tasks : Cardinality(EventsNaming(t.id)) = 2

\* A Calendar-to-Task pass of the current run has ended, by returning or raising
C2TEnded == syPc \in {"c2t_done", "t2c", "returned", "raised"}

\* C12: whenever a Calendar-to-Task pass has ended, by returning or by raising,
\* each task's document and row hold the same scheduled_start, scheduled_end
\* and calendar_event_id.
C12_DocumentAndRowAgree ==
    C2TEnded =>
        \A r \in db.tasks : \A k \in 1..Len(vault) :
            vault[k].meta.id = r.id =>
                /\ vault[k].meta.scheduled_start = r.scheduled_start
                /\ vault[k].meta.scheduled_end = r.scheduled_end
                /\ vault[k].meta.calendar_event_id = r.calendar_event_id

\* The number of calls of op for the event in the current run
CallsOf(op, event_id) ==
    Cardinality({ i \in 1..Len(syTrace) :
                    syTrace[i].op = op /\ syTrace[i].id = event_id })

CalendarOps == {"update_event", "delete_event"}

\* C13: in one Task-to-Calendar pass, a cancelled task with an event gets
\* delete_event exactly once and no update_event; a completed task with
\* completed_at gets update_event exactly once (marker and colour set on the
\* event) and no delete_event; any other task gets no calendar call.
C13_OneCallPerTask ==
    syPc = "returned" =>
        \A r \in db.tasks : r.calendar_event_id # NULL =>
            LET ev == Val(r.calendar_event_id)
                upd == CallsOf("update_event", ev)
                del == CallsOf("delete_event", ev)
            IN  /\ r.status = "cancelled" => (del = 1 /\ upd = 0)
                /\ (r.status = "completed" /\ r.completed_at # NULL) =>
                      /\ upd = 1 /\ del = 0
                      /\ \A i \in 1..Len(syTrace), k \in 1..Len(calendar) :
                            (syTrace[i] = Step("update_event", ev, TRUE)
                               /\ calendar[k].id = ev)
                              => (calendar[k].summary[1] = "done"
                                    /\ calendar[k].colorId = Some("10"))
                /\ (r.status # "cancelled"
                      /\ ~(r.status = "completed" /\ r.completed_at # NULL))
                      => (upd = 0 /\ del = 0)

\* A pass over a completed and a cancelled task has made both calls
C13_Witness ==
    /\ syPc = "returned"
    /\ \E i, j \in 1..Len(syTrace) :
          /\ syTrace[i].op = "update_event" /\ syTrace[i].ok
          /\ syTrace[j].op = "delete_event" /\ syTrace[j].ok

\* C14: a calendar call that fails in the Task-to-Calendar pass does not make
\* the pass raise; every task that needs a call still gets its one call, and
\* the returned count is the number of calls that succeeded.
C14_FailureIsolated ==
    /\ (\E i \in 1..Len(syTrace) : syTrace[i].op \in CalendarOps /\ ~syTrace[i].ok)
          => syPc \in {"t2c", "returned"}
    /\ syPc = "returned" =>
          /\ syCount.tasks_to_calendar =
                Cardinality({ i \in 1..Len(syTrace) :
                                syTrace[i].op \in CalendarOps /\ syTrace[i].ok })
          /\ \A r \in db.tasks :
                (/\ r.calendar_event_id # NULL
                 /\ \/ r.status = "cancelled"
                    \/ r.status = "completed" /\ r.completed_at # NULL)
                    => CallsOf("update_event", Val(r.calendar_event_id))
                         + CallsOf("delete_event", Val(r.calendar_event_id)) = 1

\* A pass has returned after one call failed and a later one succeeded
C14_Witness ==
    /\ syPc = "returned"
    /\ syCount.tasks_to_calendar = 1
    /\ \E i, j \in 1..Len(syTrace) :
          /\ i < j
          /\ syTrace[i].op \in CalendarOps /\ ~syTrace[i].ok
          /\ syTrace[j].op \in CalendarOps /\ syTrace[j].ok

\* C15: in one run every update_event and delete_event comes after all task
\* writes of the Calendar-to-Task pass and after the cursor was advanced, and
\* after a Calendar-to-Task pass that raised no calendar call is made.
C15_CalendarToTaskFirst ==
    \A j \in 1..Len(syTrace) : syTrace[j].op \in CalendarOps =>
        /\ \E i \in 1..(j - 1) : syTrace[i].op = "cursor"
        /\ \A i \in 1..Len(syTrace) :
              syTrace[i].op \in {"task_write", "cursor"} => i < j
        /\ \A i \in 1..Len(syTrace) : syTrace[i].op # "raise"

\* A run has written a task, advanced the cursor and then called the calendar
C15_Witness ==
    \E i, j, k \in 1..Len(syTrace) :
        /\ syTrace[i].op = "task_write"
        /\ syTrace[j].op = "cursor"
        /\ syTrace[k].op \in CalendarOps

\* C16: table calendar_sync holds at most one row; last_sync_at never falls
\* below the value a pass found; after a pass that returned it is the time the
\* pass finished; and a pass queries from last_sync_at, or from 7 days back
\* when there is no cursor, to 30 days ahead.
C16_SyncCursor ==
    /\ Cardinality(calendar_sync) <= 1
    /\ syStart # NULL =>
          /\ \A r \in calendar_sync :
                Val(syStart).cursor # NULL => r.last_sync_at >= Val(Val(syStart).cursor)
          /\ Val(syStart).time_min =
                (IF Val(syStart).cursor = NULL THEN Val(syStart).now - 7
                 ELSE Val(Val(syStart).cursor))
          /\ Val(syStart).time_max = Val(syStart).now + 30
    /\ syPc = "c2t_done" => \E r \in calendar_sync : r.last_sync_at = syNow

\* A second pass has returned, later than the first, and moved the cursor
C16_Witness ==
    /\ syPc = "c2t_done"
    /\ syStart # NULL /\ Val(syStart).cursor # NULL
    /\ \E r \in calendar_sync : r.last_sync_at > Val(Val(syStart).cursor)
    /\ Val(syStart).now < syNow

\* The last call was op and found the row of its session
Read(op) == csResult # NULL /\ Val(csResult).op = op /\ Val(csResult).row # NULL

\* C17: get_session returns the session it finds exactly when now < expires_at,
\* which is when get_or_create_session takes the session for live; at every
\* instant with now >= expires_at, now = expires_at included, it returns
\* not-found.
C17_LiveBeforeExpiry ==
    Read("get_session") =>
        LET call == Val(csResult)
        IN  /\ Live(Val(call.row), call.now) <=> call.returned = call.row
            /\ call.now >= Val(call.row).expires_at => call.returned = NULL

\* A session that end_session ended before its timeout ran out
Ended(row) == row.expires_at < row.created_at + TimeoutMinutes

\* C18: once end_session(s) has returned, get_session(s) returns not-found, at
\* the instant of the call and at every later one, and get_or_create_session
\* does not take s for the live session of its key.
C18_EndedIsTerminated ==
    /\ Read("get_session") /\ Ended(Val(Val(csResult).row))
          => Val(csResult).returned = NULL
    /\ \A r \in bot_sessions :
          Ended(r) => ~(r \in MostRecentRows(r.telegram_user_id, r.context_type)
                        /\ Live(r, csNow))

\* The step is a cleanup_expired_sessions call
CleanupStep == \E d \in LifeSteps : SerialCleanup(1, d)

SessionIds(rows) == { r.session_id : r \in rows }

\* C19: cleanup_expired_sessions removes exactly the sessions with
\* expires_at < now and all their messages and leaves every other row as it
\* was; a step of any other operation removes no session and no message.
C19_OnlyCleanupDeletes ==
    [][ LET gone == { r \in bot_sessions : r.expires_at < csNow }
        IN  IF CleanupStep
            THEN /\ bot_sessions' = bot_sessions \ gone
                 /\ conversation_messages' =
                       { m \in conversation_messages :
                           m.session_id \notin SessionIds(gone) }
            ELSE /\ SessionIds(bot_sessions) \subseteq SessionIds(bot_sessions')
                 /\ conversation_messages \subseteq conversation_messages' ]_vars

\* A cleanup removed an expired session and its message and kept a session
\* expiring at that very instant, which holds a message of its own
C19_Witness ==
    /\ csResult # NULL /\ Val(csResult).op = "cleanup_expired_sessions"
    /\ Val(csResult).removed # {}
    /\ \E m \in conversation_messages :
          /\ m.id > 1 /\ \A o \in conversation_messages : o.id >= m.id
          /\ \E r \in bot_sessions :
                /\ r.session_id = m.session_id /\ r.message_count = 1
                /\ r.expires_at = Val(csResult).now

\* An add_message call on a session at or over the limit commits
AddAtLimit ==
    /\ csPc[1] = "add_commit" /\ csPc'[1] = "idle"
    /\ \E r \in SessionRows(Val(csLoc[1]).session_id) :
          r.message_count >= max_messages

\* C20: for a live session is_at_message_limit returns true exactly when
\* message_count >= max_messages; add_message on a session at or over the
\* limit still appends its message and increments message_count.
C20_LimitIsAdvisory ==
    /\ [](Read("is_at_message_limit")
            /\ Live(Val(Val(csResult).row), Val(csResult).now)
          => (Val(csResult).at_limit
                <=> Val(Val(csResult).row).message_count >= max_messages))
    /\ [][ AddAtLimit =>
            LET sid == Val(csLoc[1]).session_id
            IN  /\ \E m \in conversation_messages' \ conversation_messages :
                      m.session_id = sid
                /\ \A r \in SessionRows(sid) : \E n \in bot_sessions' :
                      /\ n.session_id = sid
                      /\ n.message_count = r.message_count + 1 ]_vars

\* is_at_message_limit was true of a live session whose count add_message had
\* taken over the limit
C20_Witness ==
    /\ Read("is_at_message_limit")
    /\ Live(Val(Val(csResult).row), Val(csResult).now)
    /\ Val(csResult).at_limit
    /\ Val(Val(csResult).row).message_count > max_messages

\* The fields of a session that add_message has no business with
Fixed(row) ==
    <<row.session_id, row.telegram_user_id, row.telegram_chat_id, row.context_type,
      row.created_at, row.expires_at>>

\* C21: add_message leaves expires_at, created_at, user, chat and context of
\* every session as they were, so whatever messages were added a session
\* created at t expires at t + timeout and is not live at any time from then on.
C21_ExpiryFromCreation ==
    /\ [][ \A r \in bot_sessions : \E n \in bot_sessions' : Fixed(n) = Fixed(r) ]_vars
    /\ [](\A r \in bot_sessions :
            /\ r.expires_at = r.created_at + TimeoutMinutes
            /\ csNow >= r.created_at + TimeoutMinutes => ~Live(r, csNow))

\* A session has taken two messages, the last one after its timeout ran out
C21_Witness ==
    \E r \in bot_sessions :
        /\ r.message_count = 2
        /\ r.updated_at >= r.created_at + TimeoutMinutes
        /\ csNow > r.updated_at

(***************************************************************************)
(* Claims about the escalation runs.                                       *)
(***************************************************************************)
Acknowledged(id) ==
    id \in 1..Len(notifications) /\ notifications[id].acknowledged_at # NULL

\* The messages the current run has sent for a notification
SentFor(trace, id) == { i \in DOMAIN trace : trace[i].id = id /\ trace[i].sent }

\* C22: an acknowledged notification stays acknowledged under mark_as_sent,
\* acknowledge_notification and escalation runs; it is not among the pending
\* notifications, needs_escalation is false for it, and no run sends a message
\* for it.
C22_AcknowledgedIsTerminal ==
    /\ [](\A id \in NotificationIds :
            Acknowledged(id) => id \notin PendingIds /\ ~NeedsEscalation(id))
    /\ [][ \A id \in NotificationIds :
            Acknowledged(id) =>
                /\ notifications'[id].acknowledged_at # NULL
                /\ SentFor(ntTrace', id) \subseteq SentFor(ntTrace, id) ]_vars

\* A notification was escalated by the first run, acknowledged and then marked
\* as sent again; five minutes later the second run has returned, having sent
\* for another notification
C22_Witness ==
    \E id \in 1..Len(notifications) :
        /\ Acknowledged(id) /\ notifications[id].sent_at # NULL
        /\ Val(notifications[id].sent_at) >= Val(notifications[id].acknowledged_at)
        /\ ntNow - Val(notifications[id].sent_at) >= EscalateAfter * TicksPerMinute
        /\ ntRuns = 2 /\ ntPc = "returned"
        /\ Val(ntStart) = notifications
        /\ id \in ntEscalated
        /\ \E other \in 1..Len(notifications) : SentFor(ntTrace, other) # {}

\* The notifications that were pending when the current run started
PendingAtStart ==
    { id \in 1..Len(Val(ntStart)) :
        Val(ntStart)[id].sent_at # NULL /\ Val(ntStart)[id].acknowledged_at = NULL }

\* C23: a run of escalate_pending_notifications examines each pending
\* notification once and sends one message for it exactly when 5 minutes or
\* more have passed since sent_at, with priority high before 10 minutes and
\* urgent from then on; it returns the number of messages and leaves the
\* table as it found it, so the next run sends again.
C23_EscalationRun ==
    /\ [](ntPc = "returned" =>
            /\ \A id \in NotificationIds :
                  Cardinality({ i \in DOMAIN ntTrace : ntTrace[i].id = id })
                      = IF id \in PendingAtStart THEN 1 ELSE 0
            /\ \A i \in DOMAIN ntTrace :
                  LET elapsed == ntTrace[i].at - Val(Val(ntStart)[ntTrace[i].id].sent_at)
                  IN  /\ ntTrace[i].sent <=> elapsed >= 5 * TicksPerMinute
                      /\ ntTrace[i].sent =>
                            ntTrace[i].priority =
                                IF elapsed < 10 * TicksPerMinute THEN "high" ELSE "urgent"
            /\ ntCount = Cardinality({ i \in DOMAIN ntTrace : ntTrace[i].sent }))
    /\ [][ntPc = "loop" => notifications' = notifications]_vars

\* The second run has sent an urgent message, which the service refused, for a
\* notification the first run had escalated, and a high one for another
C23_Witness ==
    /\ ntPc = "returned" /\ ntRuns = 2 /\ ntCount = 2
    /\ \E i, j \in DOMAIN ntTrace :
          /\ ntTrace[i].id \in ntEscalated
          /\ ntTrace[i].sent /\ ntTrace[i].priority = "urgent" /\ ~ntTrace[i].ok
          /\ ntTrace[j].sent /\ ntTrace[j].priority = "high"

\* C24: for a notification whose sent_at is missing or is no ISO time,
\* needs_escalation is false and get_escalation_priority is default, neither
\* raises, and no run of escalate_pending_notifications raises.
C24_MalformedSentAt ==
    /\ ntPc # "raised"
    /\ \A id \in 1..Len(notifications) :
          (notifications[id].sent_at = NULL \/ ~IsoParses(notifications[id].sent_at))
              => /\ ~FromIsoFormatRaises(id)
                 /\ ~NeedsEscalation(id)
                 /\ GetEscalationPriority(id) = "default"

(***************************************************************************)
(* Further claims about the slot finder.                                   *)
(***************************************************************************)

\* C25: find_free_slots never holds more than max_slots slots, and so returns
\* no more than max_slots, for every max_slots >= 0.
C25_BoundedCount ==
    sfPc # "idle" => Len(free_slots) <= sfIn.max_slots

\* A call returned max_slots slots with the window not yet searched to its end
C25_Witness ==
    /\ sfPc = "done"
    /\ current_time < sfIn.time_max
    /\ sfIn.max_slots = MaxSlots /\ Len(free_slots) = MaxSlots

\* C26: every slot find_free_slots returns starts inside the window:
\* time_min <= start < time_max.
C26_SlotsInsideWindow ==
    sfPc # "idle" =>
        \A i \in 1..Len(free_slots) :
            /\ sfIn.time_min <= free_slots[i].start
            /\ free_slots[i].start < sfIn.time_max

\* C27: when the free/busy query fails, find_free_slots raises, hands out no
\* slot, and has issued the query once.
C27_QueryFailurePropagates ==
    (sfPc # "idle" /\ sfIn.query_failed) =>
        /\ sfPc = "raised"
        /\ free_slots = <<>>
        /\ sfIn.queries = 1

\* A call with room for slots has ended in the exception of the query
C27_Witness ==
    /\ sfPc = "raised"
    /\ sfIn.max_slots > 0
    /\ WeekdayOf(sfIn.time_min) < 5

BusyEnds == { sfIn.busy_periods[k][2] : k \in 1..Len(sfIn.busy_periods) }

\* The slots come in strictly ascending order of start, and a slot follows the
\* one before it after 15 minutes when both are on one day and the candidate
\* 15 minutes on overlaps no busy interval
AscendingInSteps ==
    \A i \in 1..(Len(free_slots) - 1) :
        LET a == free_slots[i].start
            b == free_slots[i + 1].start
        IN  /\ a < b
            /\ (/\ DayOf(a) = DayOf(b)
                /\ \A k \in 1..Len(sfIn.busy_periods) :
                      ~(a + 15 < sfIn.busy_periods[k][2]
                        /\ a + 15 + sfIn.duration_minutes > sfIn.busy_periods[k][1]))
               => b = a + 15

DatedNames == { <<"2", "026-01-31", ".md">>, <<"1", "999-12-31", ".md">> }

\* C29: after a rebuild that returned, a file of the daily-logs folder has a
\* daily_logs row, and then one row, iff its name has the shape YYYY-MM-DD.md.
C29_OnlyDatedLogsIndexed ==
    (RebuildEnded /\ ixPc = "done") =>
        \A i \in 1..Len(vault) :
            vault[i].top = "04-daily-logs" =>
                LET rows == { r \in db.daily_logs : r.file_path = FilePath(vault[i]) }
                IN  IF vault[i].name \in DatedNames THEN Cardinality(rows) = 1
                    ELSE rows = {}

\* The calls made are create_task_file(active task), rebuild_index,
\* create_task_file(the same id, completed, completed_at set), rebuild_index,
\* and the second rebuild has ended
LifecycleEnded ==
    /\ Len(ixOps) = 4 /\ ixPc \in {"done", "raised"}
    /\ ixOps[1].op = "create_task_file" /\ ixOps[2].op = "rebuild_index"
    /\ ixOps[3].op = "create_task_file" /\ ixOps[4].op = "rebuild_index"
    /\ Val(ixOps[1].task).status = "active"
    /\ Val(ixOps[3].task).id = Val(ixOps[1].task).id
    /\ Val(ixOps[3].task).status = "completed"
    /\ Val(ixOps[3].task).completed_at # NULL

\* C28: after create_task_file(active task), rebuild_index,
\* create_task_file(same id, completed, completed_at set), rebuild_index, the
\* second rebuild has returned and tasks holds a row of that id whose status is
\* completed and whose completed_at is not null.
C28_CompletedTaskIndexed ==
    LifecycleEnded =>
        /\ ixPc = "done"
        /\ \E r \in db.tasks :
              /\ r.id = Val(ixOps[1].task).id
              /\ r.status = "completed"
              /\ r.completed_at # NULL

(***************************************************************************)
(* Further claims about the sync passes.                                   *)
(***************************************************************************)

\* The lines of a description that are marker lines "Task ID: <id>"
MarkerLines(description) ==
    { i \in 1..Len(description) : description[i].marker /\ description[i].lead = "" }

\* The id of the first marker line of a description that has one
FirstMarkerId(description) ==
    description[CHOOSE i \in MarkerLines(description) :
                    \A j \in MarkerLines(description) : i <= j].rest

\* The event has no marker line, names a task that does not exist, or is all-day
SkipCase(event) ==
    \/ MarkerLines(event.description) = {}
    \/ /\ MarkerLines(event.description) # {}
       /\ \A r \in db.tasks : r.id # FirstMarkerId(event.description)
    \/ event.start = NULL \/ event.end = NULL

\* The loop of the Calendar-to-Task pass is at an event
AtEvent == syPc = "c2t" /\ syEvents # <<>>

\* C31: in the Calendar-to-Task pass an event without marker line, of a task
\* that does not exist, or without dateTime is passed over: no vault write,
\* no relational write, no count, no failure, and the loop goes on with the
\* events after it; and a write for an event goes to the task of its first
\* marker line.
C31_SkippedEvents ==
    /\ [][(AtEvent /\ SkipCase(Head(syEvents))) =>
             /\ vault' = vault /\ db' = db /\ calendar_sync' = calendar_sync
             /\ syCount' = syCount /\ syLog' = syLog /\ syResults' = syResults
             /\ syPc' = "c2t" /\ syEvents' = Tail(syEvents)]_vars
    /\ [][(AtEvent /\ (db' # db \/ vault' # vault)) =>
             /\ MarkerLines(Head(syEvents).description) # {}
             /\ \A r \in db.tasks :
                   r.id # FirstMarkerId(Head(syEvents).description) => r \in db'.tasks
             /\ \A i \in 1..Len(vault) :
                   vault[i].meta.id # FirstMarkerId(Head(syEvents).description)
                      => vault'[i] = vault[i]]_vars

\* A pass passed over an all-day event and then wrote the task of the first
\* of the two marker lines of the next event
C31_Witness ==
    /\ syPc = "c2t_done" /\ syStart # NULL
    /\ Len(Val(syStart).events) = 2
    /\ Val(syStart).events[1].start = NULL
    /\ Cardinality(MarkerLines(Val(syStart).events[2].description)) = 2
    /\ syCount.calendar_to_tasks = 1
    /\ syTrace = <<Step("task_write", FirstMarkerId(Val(syStart).events[2].description), TRUE),
                   Step("cursor", "calendar_sync", TRUE)>>

(***************************************************************************)
(* Further claims about rebuild_index.                                     *)
(***************************************************************************)

IndexTables == {"tasks", "projects", "people", "daily_logs"}

\* rebuild_index is between its first commit and its end
Rebuilding == InLoop \/ ixPc = "commit"

\* C32: the wipe of tasks, projects, people and daily_logs is committed before
\* any row is inserted again, so that a reader sees the four tables empty
\* while the rebuild is at work on a vault with files; and a rebuild that
\* raised leaves the tables wiped or partly filled from the vault, without the
\* rows they held before.
C32_WipeBeforeRepopulation ==
    /\ Rebuilding => \A table \in IndexTables : db[table] = {}
    /\ (ixCalls >= 1 /\ ixPc = "raised") =>
          \A table \in IndexTables :
              /\ GoneTaskRow \notin db[table]
              /\ \A r \in db[table] :
                    \E i \in 1..Len(vault) : r.file_path = FilePath(vault[i])

\* The rebuild has read a task file of the vault over an index that held rows
\* of a vanished file, and the committed tables are empty
C32_Witness ==
    /\ Rebuilding /\ vault # <<>>
    /\ ixConn # NULL /\ Val(ixConn).tasks # {}
    /\ BagIn(<<"gone", "work">>, db.task_tags)
    /\ \A table \in IndexTables : db[table] = {}

(***************************************************************************)
(* Further claims about the sessions.                                      *)
(***************************************************************************)

\* The live sessions of a key
LiveOfKey(u, c) == { r \in KeyRows(u, c) : Live(r, csNow) }

\* C33: get_or_create_session is not atomic: the create step of a caller whose
\* lookup found no live session inserts a live session of the key whatever the
\* table holds by then, so that two callers that interleave lookup and create
\* leave two live sessions of one key.
C33_CreateAfterStaleLookup ==
    [][\A p \in Callers :
          (csPc[p] = "goc_create" /\ csPc'[p] = "idle") =>
              \E r \in bot_sessions' \ bot_sessions :
                  /\ r.telegram_user_id = Val(csLoc[p]).user
                  /\ r.context_type = Val(csLoc[p]).context_type
                  /\ Live(r, csNow')]_vars

\* Two live sessions of one key, both handed out by get_or_create_session
C33_Witness ==
    \E u \in Users, c \in ContextTypes :
        /\ Cardinality(LiveOfKey(u, c)) = 2
        /\ \A r \in LiveOfKey(u, c) : r.session_id \in csReturned

\* C34: a session moves only forward through absent, live, expired: no
\* create_session, get_or_create_session, add_message, end_session or
\* cleanup_expired_sessions call increases the expires_at of a session that
\* exists, and a session that is not live does not become live.
C34_ForwardOnly ==
    [][\A r \in bot_sessions : \A n \in bot_sessions' :
          n.session_id = r.session_id =>
              /\ n.expires_at <= r.expires_at
              /\ ~Live(r, csNow) => ~Live(n, csNow')]_vars

(***************************************************************************)
(* Further claims about the notifications.                                 *)
(***************************************************************************)

\* C35: when acknowledge_notification runs while escalate_pending_notifications
\* is at work, no escalation message goes out for a notification whose
\* acknowledgement is committed, and every escalation message that goes out
\* has priority high or urgent.
C35_NoEscalationAfterAcknowledgement ==
    [][(ntPc = "send" /\ ntPc' = "loop") =>
          /\ notifications[Head(ntPending)].acknowledged_at = NULL
          /\ Val(ntPriority) \in {"high", "urgent"}]_vars

\* The order of the priorities
Rank(priority) ==
    CASE priority = "default" -> 0
      [] priority = "high" -> 1
      [] priority = "urgent" -> 2

\* C36: a sent_at that is set is changed by no operation, so that, as time
\* advances over track_notification, mark_as_sent and
\* escalate_pending_notifications calls, the priority get_escalation_priority
\* reports for a notification that stays unacknowledged never decreases.
C36_PriorityNeverDecreases ==
    [][\A id \in 1..Len(notifications) :
          /\ notifications[id].sent_at # NULL =>
                notifications'[id].sent_at = notifications[id].sent_at
          /\ (notifications[id].acknowledged_at = NULL
               /\ notifications'[id].acknowledged_at = NULL) =>
                Rank(GetEscalationPriority(id)') >= Rank(GetEscalationPriority(id))]_vars

(***************************************************************************)
(* Further claims about the slot finder.                                   *)
(***************************************************************************)

\* C37: find_free_slots terminates: every pass of the search loop emits a
\* slot or moves the cursor strictly forward (a pass that emits moves it
\* forward too), also the passes that jump to the end of a busy period and
\* those of a duration longer than the work day, so that a call that entered
\* the loop returns.
C37_Terminates ==
    /\ [][(sfPc = "loop" /\ sfPc' = "loop") => current_time' > current_time]_vars
    /\ (sfPc = "loop") ~> (sfPc = "done")

\* A search with room for more slots ended when a jump to the end of a busy
\* period took the cursor to time_max or beyond
C37_Witness ==
    /\ sfPc = "done" /\ sfJumped
    /\ Len(free_slots) < sfIn.max_slots
    /\ current_time >= sfIn.time_max

\* C38: after any sequence of create_session, add_message, end_session and
\* cleanup_expired_sessions calls every row of conversation_messages names a
\* session that has a row in bot_sessions, also when add_message was called
\* with the id of a session that cleanup has removed.
C38_MessagesHaveSessions ==
    \A m \in conversation_messages :
        \E r \in bot_sessions : r.session_id = m.session_id

\* The Calendar-to-Task pass of the current run raised
PassRaised ==
    /\ syTrace # <<>>
    /\ syTrace[Len(syTrace)].op = "raise"

\* C39: when a Calendar-to-Task pass raises, because the event query fails or
\* a vault or relational write for a task fails, the sync cursor is the one
\* the pass found, the task updates the pass wrote before stay written, and
\* the failure reaches the caller.
C39_FailedPassKeepsCursor ==
    /\ [](PassRaised =>
            /\ GetLastSyncTime = Val(syStart).cursor
            /\ syPc = "raised"
            /\ syResults[Len(syResults)] = NULL)
    /\ [][(~PassRaised /\ PassRaised') =>
             /\ db' = db
             /\ \A i \in 1..Len(vault) :
                   vault'[i] # vault[i] =>
                       vault[i].meta.id = syTrace'[Len(syTrace')].id]_vars

\* A pass wrote one task and raised at the next, after an earlier run had set
\* the cursor
C39_Witness ==
    /\ PassRaised /\ Len(syTrace) = 2
    /\ syTrace[1].op = "task_write"
    /\ Val(syStart).cursor # NULL
    /\ \E r \in db.tasks : r.id = syTrace[1].id /\ r \notin Val(syStart).tasks

(***************************************************************************)
(* Claims about the git sync.                                              *)
(***************************************************************************)

\* No step of the sync call that returned met an error or a conflict that it
\* left unresolved
NoErrorReported ==
    /\ gsResult.errors = 0
    /\ ~gsLog.commit_failed /\ ~gsLog.push_failed
    /\ gsLog.pull_status # Some("error")
    /\ gsLog.pull_status = Some("conflict") => gsLog.resolved = Some(TRUE)

\* C40: sync runs the cycle commit, pull, resolve conflicts, push: when a sync
\* call has committed local changes and no step met an error or an unresolved
\* conflict, the commit is on the remote when the call returns, also when the
\* remote had no new commit to pull.
C40_CommitIsPushed ==
    (gsPc = "returned" /\ gsResult.committed /\ NoErrorReported) =>
        /\ gsResult.pushed
        /\ Val(gsLog.commit) \in gsRemote
====
